---- MODULE Spec2Model ----
(***************************************************************************)
(* Model of the annotation pipeline of the financial-term service:         *)
(*   - NERService._merge_entities        (services/ner_service.py)         *)
(*   - CorrService.correct_text and its helpers (services/corr_service.py) *)
(*   - the generative call wrappers of both services                       *)
(*   - StdService.__init__ / standardize_text (services/std_service.py)    *)
(*   - NERService.extract_entities and its helpers                         *)
(*   - EmbeddingConfig and EmbeddingFactory (utils/)                       *)
(* Python strings are modelled as sequences of one-character strings.      *)
(* Confidences are integers in hundredths (0.7 is 70); a final NER         *)
(* confidence is in millionths.                                            *)
(***************************************************************************)
EXTENDS Integers, Sequences, FiniteSets, TLC

VARIABLES
    \* ---- NERService._merge_entities
    rule_entities,      \* argument rule_entities
    llm_entities,       \* argument llm_entities
    vector_entities,    \* argument vector_entities
    all_entities,       \* local all_entities
    seen_entities,      \* local seen_entities
    merge_pc,           \* position: "rule", "llm", "vector", "done", "idle"
    \* ---- CorrService.correct_text
    text,               \* argument text
    llm_options,        \* argument llm_options
    llm_reply,          \* what ollama.chat does for this request
    rule_corrections,   \* local rule_corrections
    llm_corrections,    \* local llm_corrections
    all_corrections,    \* local all_corrections
    corrected_text,     \* local corrected_text of _apply_corrections
    corr_i,             \* position of the loop over reversed(corrections)
    corr_pc,            \* position in correct_text
    corr_result,        \* the dict correct_text returns
    apply_log,          \* history: one record per loop iteration of _apply_corrections
    \* ---- _extract_entities_by_llm / _correct_by_llm called on their own
    gen_service,        \* "ner" or "corr": whose wrapper is called
    gen_options,        \* argument llm_options
    gen_reply,          \* what ollama.chat does for this call
    gen_out,            \* what the wrapper returns or raises
    gen_pc,             \* "call", "done", "idle"
    \* ---- StdService (one instance, main.py:48)
    embedding_func,     \* self.embedding_func: the configuration it was made for
    client,             \* self.client: the database it is connected to
    collection_name,    \* self.collection_name
    std_req,            \* arguments of the standardize_text call in progress
    std_pc,             \* position in standardize_text / __init__
    std_result,         \* what the last standardize_text call returned
    std_calls,          \* number of standardize_text calls so far
    std_at_call,        \* history: the active configuration when the call began
    std_reinit,         \* history: whether this call ran __init__
    search_used,        \* history: the handles the search of this call read
    installed_from,     \* history: per handle, the configuration whose __init__ set it
    \* ---- NERService.extract_entities
    ner_text,           \* argument text
    ner_options,        \* argument llm_options
    ner_reply,          \* what ollama.chat does for this request
    ner_rule,           \* local rule_entities
    ner_llm,            \* local llm_entities
    ner_vector,         \* local vector_entities
    ner_all,            \* local all_entities
    ner_pc,             \* position in extract_entities
    ner_result,         \* the dict extract_entities returns
    \* ---- CorrService._correct_by_rules called on its own
    rules_text,         \* argument text
    rules_out,          \* the list it returns
    rules_pc,           \* "call", "done", "idle"
    \* ---- the result part of standardize_text, on given hits
    score_hits,         \* local similar_terms
    score_out,          \* the dict it returns
    score_pc,           \* "call", "done", "idle"
    \* ---- EmbeddingFactory, as StdService.__init__ uses it
    emb_provider,       \* argument provider of StdService.__init__
    emb_model,          \* argument model
    emb_library,        \* whether the provider's library loads
    emb_call_fails,     \* whether the provider's embed call raises
    emb_func,           \* the function create_embedding_function returned
    emb_vec,            \* the vector a call of that function returned
    emb_pc,             \* "create", "query", "done", "idle"
    \* ---- get_embedding_dimension, called on its own
    dim_provider,       \* the provider argument
    dim_model,          \* the model_name argument
    dim_out,            \* the returned dimension
    dim_pc,             \* "idle", "call", "done"
    \* ---- _merge_corrections and _apply_corrections, request after request
    app_queue,          \* the requests still to serve: [text, llm]
    app_seen,           \* seen_corrections as the last call left it
    app_outs            \* history: what each served request produced

mergeVars == <<rule_entities, llm_entities, vector_entities, all_entities,
               seen_entities, merge_pc>>
corrVars == <<text, llm_options, llm_reply, rule_corrections, llm_corrections,
              all_corrections, corrected_text, corr_i, corr_pc, corr_result,
              apply_log>>

genVars == <<gen_service, gen_options, gen_reply, gen_out, gen_pc>>
stdVars == <<embedding_func, client, collection_name, std_req, std_pc, std_result,
             std_calls, std_at_call, std_reinit, search_used, installed_from>>

nerVars == <<ner_text, ner_options, ner_reply, ner_rule, ner_llm, ner_vector, ner_all, ner_pc, ner_result>>

rulesVars == <<rules_text, rules_out, rules_pc>>

scoreVars == <<score_hits, score_out, score_pc>>

embVars == <<emb_provider, emb_model, emb_library, emb_call_fails, emb_func, emb_vec, emb_pc>>

dimVars == <<dim_provider, dim_model, dim_out, dim_pc>>

applierVars == <<app_queue, app_seen, app_outs>>

vars == <<mergeVars, corrVars, genVars, stdVars, nerVars, rulesVars, scoreVars, embVars, dimVars, applierVars>>

\* what the steps of one operation leave alone: the state of the others
notMergeVars == <<corrVars, genVars, stdVars, nerVars, rulesVars, scoreVars, embVars, dimVars, applierVars>>
notCorrVars == <<mergeVars, genVars, stdVars, nerVars, rulesVars, scoreVars, embVars, dimVars, applierVars>>
notGenVars == <<mergeVars, corrVars, stdVars, nerVars, rulesVars, scoreVars, embVars, dimVars, applierVars>>
notStdVars == <<mergeVars, corrVars, genVars, nerVars, rulesVars, scoreVars, embVars, dimVars, applierVars>>
notNerVars == <<mergeVars, corrVars, genVars, stdVars, rulesVars, scoreVars, embVars, dimVars, applierVars>>
notRulesVars == <<mergeVars, corrVars, genVars, stdVars, nerVars, scoreVars, embVars, dimVars, applierVars>>
notScoreVars == <<mergeVars, corrVars, genVars, stdVars, nerVars, rulesVars, embVars, dimVars, applierVars>>
notEmbVars == <<mergeVars, corrVars, genVars, stdVars, nerVars, rulesVars, scoreVars, dimVars, applierVars>>
notDimVars == <<mergeVars, corrVars, genVars, stdVars, nerVars, rulesVars, scoreVars, embVars, applierVars>>
notApplierVars == <<mergeVars, corrVars, genVars, stdVars, nerVars, rulesVars, scoreVars, embVars, dimVars>>

(***************************************************************************)
(* Bounds and generic helpers                                              *)
(***************************************************************************)
\* total number of candidates handed to _merge_entities over the three sources
MaxCands == 3

Max(a, b) == IF a >= b THEN a ELSE b
Min(a, b) == IF a <= b THEN a ELSE b

\* all sequences over S of length at most n
SeqsUpTo(S, n) == UNION {[1..k -> S] : k \in 0..n}

(***************************************************************************)
(* NERService._merge_entities                                              *)
(***************************************************************************)
ETF == <<"E", "T", "F">>
etf == <<"e", "t", "f">>
jj  == <<"j", "j">>

MergeTexts == {ETF, etf, jj}
MergeTypes == {"PRODUCT", "COMPANY"}

\* candidates as the three sources produce them: rule candidates carry 0.7
\* (ner_service.py:115), generative ones 0.8 (ner_service.py:177)
RuleCands   == [text : MergeTexts, type : MergeTypes, method : {"rule_based"},
                confidence : {70}]
LLMCands    == [text : MergeTexts, type : MergeTypes, method : {"llm_based"},
                confidence : {80}]
VectorCands == [text : MergeTexts, type : MergeTypes, method : {"vector_based"},
                confidence : {90}]

\* str.lower() on the letters the model uses
LowerChar(c) == CASE c = "E" -> "e" [] c = "T" -> "t" [] c = "F" -> "f" [] OTHER -> c
LowerText(t) == [i \in DOMAIN t |-> LowerChar(t[i])]

\* key = (entity['text'], entity['type'])
EntityKeyLowered(entity) == <<LowerText(entity.text), entity.type>>
EntityKeyTextOnly(entity) == <<entity.text, "">>
EntityKey(entity) == <<entity.text, entity.type>>

\* one "for entity in ...: if key not in seen: append; add" loop; acc is the
\* pair of locals [all, seen]
RECURSIVE MergeLoop(_, _)
MergeLoop(entities, acc) ==
    IF entities = <<>> THEN acc
    ELSE LET entity == Head(entities)
             key == EntityKey(entity)
         IN IF key \notin acc.seen
            THEN MergeLoop(Tail(entities),
                           [all |-> Append(acc.all, entity),
                            seen |-> acc.seen \cup {key}])
            ELSE MergeLoop(Tail(entities), acc)

\* the three loops in the order the code runs them
MergeOrderVectorFirst(rule, llm, vector) == <<vector, llm, rule>>
MergeOrder(rule, llm, vector) == <<rule, llm, vector>>

\* _merge_entities as a function of its arguments
_merge_entities(rule, llm, vector) ==
    LET o == MergeOrder(rule, llm, vector)
        a1 == MergeLoop(o[1], [all |-> <<>>, seen |-> {}])
        a2 == MergeLoop(o[2], a1)
        a3 == MergeLoop(o[3], a2)
    IN a3.all

MergeInit ==
    /\ \E n1 \in 0..MaxCands : \E n2 \in 0..(MaxCands - n1) :
       \E n3 \in 0..(MaxCands - n1 - n2) :
          /\ rule_entities \in [1..n1 -> RuleCands]
          /\ llm_entities \in [1..n2 -> LLMCands]
          /\ vector_entities \in [1..n3 -> VectorCands]
    /\ all_entities = <<>>
    /\ seen_entities = {}
    /\ merge_pc = "rule"

MergeIdle ==
    /\ rule_entities = <<>> /\ llm_entities = <<>> /\ vector_entities = <<>>
    /\ all_entities = <<>> /\ seen_entities = {} /\ merge_pc = "idle"

MergeStep(from, to, k) ==
    /\ merge_pc = from
    /\ LET acc == MergeLoop(MergeOrder(rule_entities, llm_entities, vector_entities)[k],
                            [all |-> all_entities, seen |-> seen_entities])
       IN /\ all_entities' = acc.all
          /\ seen_entities' = acc.seen
    /\ merge_pc' = to
    /\ UNCHANGED <<rule_entities, llm_entities, vector_entities, notMergeVars>>

MergeRule == MergeStep("rule", "llm", 1)
MergeLLM == MergeStep("llm", "vector", 2)
MergeVector == MergeStep("vector", "done", 3)

MergeNext == MergeRule \/ MergeLLM \/ MergeVector

(***************************************************************************)
(* Python string helpers                                                   *)
(***************************************************************************)
\* a slice bound as Python normalises it for a sequence of length n
PyIndex(i, n) == IF i < 0 THEN Max(i + n, 0) ELSE Min(i, n)

\* s[a:b]
PySlice(s, a, b) ==
    LET lo == PyIndex(a, Len(s))
        hi == PyIndex(b, Len(s))
    IN IF lo >= hi THEN <<>> ELSE SubSeq(s, lo + 1, hi)

\* s[:a] and s[b:]
PyPrefix(s, a) == PySlice(s, 0, a)
PySuffix(s, b) == PySlice(s, b, Len(s))

\* s[i:].startswith(pat), i counted from 0
StartsAt(s, pat, i) ==
    /\ i + Len(pat) <= Len(s)
    /\ SubSeq(s, i + 1, i + Len(pat)) = pat

\* pat in s, and s.find(pat)
Contains(s, pat) == \E i \in 0..Len(s) : StartsAt(s, pat, i)
Find(s, pat) ==
    IF Contains(s, pat)
    THEN CHOOSE i \in 0..Len(s) :
            StartsAt(s, pat, i) /\ \A k \in 0..(i - 1) : ~StartsAt(s, pat, k)
    ELSE -1

\* a pattern is a sequence of character classes; whether it matches at i
MatchesAt(s, pattern, i) ==
    /\ i + Len(pattern) <= Len(s)
    /\ \A k \in 1..Len(pattern) : s[i + k] \in pattern[k]

\* re.finditer(pattern, s): the starts of the non-overlapping matches, left
\* to right, scanning from position i
FindIterFirstOnly(s, pattern, i) ==
    LET starts == {j \in i..Len(s) : MatchesAt(s, pattern, j)}
    IN IF starts = {} THEN <<>>
       ELSE << CHOOSE j \in starts : \A k \in starts : j <= k >>
RECURSIVE FindIter(_, _, _)
FindIter(s, pattern, i) ==
    IF i + Len(pattern) > Len(s) THEN <<>>
    ELSE IF MatchesAt(s, pattern, i)
         THEN <<i>> \o FindIter(s, pattern, i + Len(pattern))
         ELSE FindIter(s, pattern, i + 1)

\* reversed(s)
Reversed(s) == [i \in 1..Len(s) |-> s[Len(s) + 1 - i]]

(***************************************************************************)
(* CorrService: dictionaries and inputs                                    *)
(***************************************************************************)
\* longest text handed to correct_text
MaxTextLen == 2
\* most candidates in one generative reply
MaxLLMCorrections == 2
\* longest 'original' of a generative candidate
MaxOriginalLen == 2

\* "t" is 投, "z" is 姿, "Z" is 资
TextChars == {"t", "z", "Z"}
TypoChars == {"t", "z"}
Texts == SeqsUpTo(TextChars, MaxTextLen)

\* the entries of common_typos and financial_patterns over these characters:
\* "投姿": "投资" and r'投[资姿]'
common_typos == << [typo |-> <<"t", "z">>, correct |-> <<"t", "Z">>] >>
financial_patterns == << <<{"t"}, {"Z", "z"}>> >>

\* a correction dict; 'missing' names the keys the dict does not have
Correction(start, end, original, corrected, type, confidence, method, missing) ==
    [start |-> start, end |-> end, original |-> original, corrected |-> corrected,
     type |-> type, confidence |-> confidence, method |-> method, missing |-> missing]

HasKey(d, k) == k \notin d.missing

\* the candidates a generative reply may hold: any offsets around the text,
\* any short original, a shorter or a longer replacement; or a dict that
\* lacks one of the four keys
StartOffsets == -1..(MaxTextLen - 1)
EndOffsets == 1..MaxTextLen
Originals == SeqsUpTo(TypoChars, MaxOriginalLen)
Replacements == {<<"Z">>, <<"t", "Z", "z">>}
WellFormedItems ==
    {Correction(s, e, o, c, "spelling", 95, "", {}) :
        s \in StartOffsets, e \in EndOffsets, o \in Originals, c \in Replacements}
MalformedItems ==
    {Correction(0, 1, <<"t">>, <<"Z">>, "spelling", 95, "", {k}) :
        k \in {"start", "end", "original", "corrected"}}
ReplyItems == WellFormedItems \cup MalformedItems

\* what ollama.chat and the parsing of its content can come to
\*   "call_fails"  ollama.chat raises
\*   "not_json"    json.loads raises JSONDecodeError
\*   "not_object"  the JSON value is a list, a number, a string or null
\*   "no_key"      an object without the 'corrections' / 'entities' key
\*   "not_list"    the key holds a number or null
\*   "bad_item"    the key holds a list with an element that is not an object
\*   "list"        the key holds a list of objects
FailureKinds == {"call_fails", "not_json", "not_object", "no_key", "not_list",
                 "bad_item"}
Reply(kind, items) == [kind |-> kind, items |-> items]

\* ollama.chat(model=model, messages=[...]) is called without a timeout and
\* nothing around it bounds the wait: the call comes back when the annotator
\* has replied or the connection has failed, and not before
NoResponse == Reply("no_response", <<>>)
ChatReturns(provider, reply) == provider # "ollama" \/ reply # NoResponse
CorrReplies ==
    {Reply(k, <<>>) : k \in FailureKinds}
      \cup {Reply("list", items) : items \in SeqsUpTo(ReplyItems, MaxLLMCorrections)}

\* llm_options: None, {}, {"provider": "ollama"}, {"provider": <another>}
LLMOptions == {"None", "empty", "ollama", "other"}
CorrRequests ==
    {<<"ollama", r>> : r \in CorrReplies}
      \cup {<<o, Reply("list", <<>>)>> : o \in LLMOptions \ {"ollama"}}

(***************************************************************************)
(* CorrService._correct_by_rules                                           *)
(***************************************************************************)
TypoCorrections(s) ==
    LET hit(k) == Contains(s, common_typos[k].typo)
        entry(k) == LET start_pos == Find(s, common_typos[k].typo) IN
                    Correction(start_pos, start_pos + Len(common_typos[k].typo),
                               common_typos[k].typo, common_typos[k].correct,
                               "common_typo", 90, "rule_based", {})
        F[k \in 0..Len(common_typos)] ==
            IF k = 0 THEN <<>>
            ELSE IF hit(k) THEN Append(F[k - 1], entry(k)) ELSE F[k - 1]
    IN F[Len(common_typos)]

PatternCorrections(s) ==
    LET matches(k) == FindIter(s, financial_patterns[k], 0)
        entry(k, st) == LET matched_text ==
                               SubSeq(s, st + 1, st + Len(financial_patterns[k]))
                        IN Correction(st, st + Len(financial_patterns[k]),
                                      matched_text, matched_text,
                                      "pattern_match", 70, "rule_based", {})
        F[k \in 0..Len(financial_patterns)] ==
            IF k = 0 THEN <<>>
            ELSE F[k - 1] \o [m \in 1..Len(matches(k)) |-> entry(k, matches(k)[m])]
    IN F[Len(financial_patterns)]

_correct_by_rules(s) == TypoCorrections(s) \o PatternCorrections(s)

(***************************************************************************)
(* _correct_by_rules on its own, on longer texts                           *)
(***************************************************************************)
MaxRulesTextLen == 4
RulesTexts == SeqsUpTo(TextChars, MaxRulesTextLen)

RulesInit ==
    /\ rules_text \in RulesTexts
    /\ rules_out = <<>>
    /\ rules_pc = "call"

RulesIdle == rules_text = <<>> /\ rules_out = <<>> /\ rules_pc = "idle"

\* rule_corrections = self._correct_by_rules(text)
RulesCall ==
    /\ rules_pc = "call"
    /\ rules_out' = _correct_by_rules(rules_text)
    /\ rules_pc' = "done"
    /\ UNCHANGED <<rules_text, notRulesVars>>

RulesNext == RulesCall

(***************************************************************************)
(* The generative call: _correct_by_llm / _correct_with_ollama             *)
(* (and, with the 'entities' key, _extract_entities_by_llm / _with_ollama) *)
(* A call either returns a value or raises: [exc, value].                  *)
(***************************************************************************)
Ok(v) == [exc |-> "none", value |-> v]
Raise(e) == [exc |-> e, value |-> <<>>]

\* "except Exception as e: ... return []"
CatchNothing(outcome) == outcome
CatchException(outcome) == IF outcome.exc # "none" THEN Ok(<<>>) ELSE outcome

\* "except json.JSONDecodeError: ... return []"
CatchJSONDecodeError(outcome) ==
    IF outcome.exc = "JSONDecodeError" THEN Ok(<<>>) ELSE outcome

\* "for correction in corrections: correction['method'] = 'llm_based'", and
\* "for entity in entities: entity['method'] = 'llm_based';
\*  entity['confidence'] = 0.8"
TaggedKeepsConfidence(items, service) ==
    [i \in DOMAIN items |-> [items[i] EXCEPT !.method = "llm_based"]]
Tagged(items, service) ==
    IF service = "corr"
    THEN [i \in DOMAIN items |-> [items[i] EXCEPT !.method = "llm_based"]]
    ELSE [i \in DOMAIN items |->
             [items[i] EXCEPT !.method = "llm_based", !.confidence = 80]]

\* ollama.chat, response['message']['content'], json.loads, result.get(key, [])
\* and the tagging loop
ChatAndParse(reply, service) ==
    CASE reply.kind = "call_fails" -> Raise("ResponseError")
      [] reply.kind = "not_json"   -> Raise("JSONDecodeError")
      [] reply.kind = "not_object" -> Raise("AttributeError")
      [] reply.kind = "no_key"     -> Ok(<<>>)
      [] reply.kind = "not_list"   -> Raise("TypeError")
      [] reply.kind = "bad_item"   -> Raise("TypeError")
      [] reply.kind = "list"       -> Ok(Tagged(reply.items, service))

_correct_with_ollama(reply) ==
    CatchException(CatchJSONDecodeError(ChatAndParse(reply, "corr")))

\* "if not llm_options: llm_options = {...}" and llm_options.get("provider", "ollama")
CorrProvider(options) == IF options = "other" THEN "other" ELSE "ollama"

_correct_by_llm(options, reply) ==
    CatchException(IF CorrProvider(options) = "ollama"
                   THEN _correct_with_ollama(reply)
                   ELSE Ok(<<>>))

(***************************************************************************)
(* CorrService._merge_corrections                                          *)
(***************************************************************************)
\* key = (correction['start'], correction['end'], correction['original'])
CorrectionKey(correction) == <<correction.start, correction.end, correction.original>>
KeyRaises(correction) ==
    \E k \in {"start", "end", "original"} : ~HasKey(correction, k)

\* one "for correction in ...: if key not in seen: append; add" loop;
\* acc is [exc, all, seen]
RECURSIVE MergeCorrLoop(_, _)
MergeCorrLoop(corrections, acc) ==
    IF corrections = <<>> \/ acc.exc # "none" THEN acc
    ELSE LET correction == Head(corrections) IN
         IF KeyRaises(correction)
         THEN [acc EXCEPT !.exc = "KeyError"]
         ELSE IF CorrectionKey(correction) \notin acc.seen
              THEN MergeCorrLoop(Tail(corrections),
                     [acc EXCEPT !.all = Append(@, correction),
                                 !.seen = @ \cup {CorrectionKey(correction)}])
              ELSE MergeCorrLoop(Tail(corrections), acc)

\* list.sort(key=lambda x: x['start']): stable, ascending
SortByStartUnsorted(s) == s
RECURSIVE SortByStart(_)
SortByStart(s) ==
    IF s = <<>> THEN <<>>
    ELSE LET sorted == SortByStart(SubSeq(s, 1, Len(s) - 1))
             x == s[Len(s)]
             n == Cardinality({i \in DOMAIN sorted : sorted[i].start <= x.start})
         IN SubSeq(sorted, 1, n) \o <<x>> \o SubSeq(sorted, n + 1, Len(sorted))

\* "seen_corrections = set()" at the entry of _merge_corrections: a local,
\* whatever the previous call left in its own
SeenAtEntryKept(left) == left
SeenAtEntry(left) == {}

\* the two loops: rule_corrections first, llm_corrections second
CorrSourceOrderLLMFirst(rule, llm) == <<llm, rule>>
CorrSourceOrder(rule, llm) == <<rule, llm>>

\* _merge_corrections in a call that follows one whose seen set was left
MergeCorrections(left, rule, llm) ==
    LET o == CorrSourceOrder(rule, llm)
        a1 == MergeCorrLoop(o[1], [exc |-> "none", all |-> <<>>,
                                   seen |-> SeenAtEntry(left)])
        a2 == MergeCorrLoop(o[2], a1)
    IN [exc |-> a2.exc,
        value |-> IF a2.exc # "none" THEN <<>> ELSE SortByStart(a2.all),
        seen |-> a2.seen]

_merge_corrections(rule, llm) ==
    LET r == MergeCorrections({}, rule, llm) IN [exc |-> r.exc, value |-> r.value]

(***************************************************************************)
(* CorrService._apply_corrections                                          *)
(***************************************************************************)
\* the order the loop visits the sorted list: "for correction in reversed(corrections)"
VisitAscending(corrections) == corrections
RECURSIVE SortByStartDescending(_)
SortByStartDescending(s) ==
    IF s = <<>> THEN <<>>
    ELSE LET sorted == SortByStartDescending(SubSeq(s, 1, Len(s) - 1))
             x == s[Len(s)]
             n == Cardinality({i \in DOMAIN sorted : sorted[i].start >= x.start})
         IN SubSeq(sorted, 1, n) \o <<x>> \o SubSeq(sorted, n + 1, Len(sorted))
VisitStableDescending(corrections) == SortByStartDescending(corrections)
VisitOrder(corrections) == Reversed(corrections)

\* "start < len(corrected_text) and end <= len(corrected_text) and
\*  corrected_text[start:end] == original"
CanApplyUnchecked(current, correction) ==
    correction.start < Len(current) /\ correction.end <= Len(current)
CanApply(current, correction) ==
    /\ correction.start < Len(current)
    /\ correction.end <= Len(current)
    /\ PySlice(current, correction.start, correction.end) = correction.original

\* "corrected_text[:start] + corrected + corrected_text[end:]"
SpliceOverwrite(current, correction) ==
    PyPrefix(current, correction.start) \o correction.corrected
       \o PySuffix(current, correction.start + Len(correction.corrected))
Splice(current, correction) ==
    PyPrefix(current, correction.start) \o correction.corrected
       \o PySuffix(current, correction.end)

\* one iteration of the loop body on the current text
ApplyOne(current, correction) ==
    IF CanApply(current, correction) THEN Splice(current, correction) ELSE current

\* the whole of _apply_corrections, as a function
RECURSIVE ApplyAll(_, _)
ApplyAll(current, visit) ==
    IF visit = <<>> THEN Ok(current)
    ELSE IF ~HasKey(Head(visit), "corrected") THEN Raise("KeyError")
    ELSE ApplyAll(ApplyOne(current, Head(visit)), Tail(visit))

\* "if not corrections: return text"
ReturnEmptyText(s) == <<>>
ReturnText(s) == s

_apply_corrections(s, corrections) ==
    IF corrections = <<>> THEN Ok(ReturnText(s))
    ELSE ApplyAll(s, VisitOrder(corrections))

(***************************************************************************)
(* CorrService.correct_text, step by step                                  *)
(***************************************************************************)
NoResult == [message |-> "none"]

\* where an exception raised inside the try block of correct_text goes:
\* to its "except Exception" branch ("raised" would be out to the caller)
OnExceptionPropagate == "raised"
OnException == "except"

CorrInit ==
    /\ text \in Texts
    /\ \E rq \in CorrRequests : llm_options = rq[1] /\ llm_reply = rq[2]
    /\ rule_corrections = <<>>
    /\ llm_corrections = <<>>
    /\ all_corrections = <<>>
    /\ corrected_text = <<>>
    /\ corr_i = 0
    /\ corr_pc = "rules"
    /\ corr_result = NoResult
    /\ apply_log = <<>>

CorrIdle ==
    /\ text = <<>> /\ llm_options = "None" /\ llm_reply = Reply("list", <<>>)
    /\ rule_corrections = <<>> /\ llm_corrections = <<>> /\ all_corrections = <<>>
    /\ corrected_text = <<>> /\ corr_i = 0 /\ corr_pc = "idle"
    /\ corr_result = NoResult /\ apply_log = <<>>

\* rule_corrections = self._correct_by_rules(text)
CorrRules ==
    /\ corr_pc = "rules"
    /\ rule_corrections' = _correct_by_rules(text)
    /\ corr_pc' = "llm"
    /\ UNCHANGED <<text, llm_options, llm_reply, llm_corrections, all_corrections,
                   corrected_text, corr_i, corr_result, apply_log,
                   notCorrVars>>

\* llm_corrections = self._correct_by_llm(text, llm_options)
CorrLLM ==
    /\ corr_pc = "llm"
    /\ ChatReturns(CorrProvider(llm_options), llm_reply)
    /\ LET r == _correct_by_llm(llm_options, llm_reply) IN
       /\ llm_corrections' = r.value
       /\ corr_pc' = IF r.exc # "none" THEN OnException ELSE "merge"
    /\ UNCHANGED <<text, llm_options, llm_reply, rule_corrections, all_corrections,
                   corrected_text, corr_i, corr_result, apply_log,
                   notCorrVars>>

\* all_corrections = self._merge_corrections(...), then the entry of
\* _apply_corrections: "if not corrections: return text", corrected_text = text
CorrMerge ==
    /\ corr_pc = "merge"
    /\ LET r == _merge_corrections(rule_corrections, llm_corrections) IN
       /\ all_corrections' = r.value
       /\ corr_pc' = IF r.exc # "none" THEN OnException
                     ELSE IF r.value = <<>> THEN "return" ELSE "apply"
       /\ corrected_text' = IF r.value = <<>> THEN ReturnText(text) ELSE text
    /\ corr_i' = 1
    /\ UNCHANGED <<text, llm_options, llm_reply, rule_corrections, llm_corrections,
                   corr_result, apply_log,
                   notCorrVars>>

\* one iteration of "for correction in reversed(corrections)"
CorrApply ==
    /\ corr_pc = "apply"
    /\ corr_i <= Len(all_corrections)
    /\ LET correction == VisitOrder(all_corrections)[corr_i]
           last == corr_i = Len(all_corrections)
       IN IF ~HasKey(correction, "corrected")
          THEN /\ corr_pc' = OnException
               /\ UNCHANGED <<corrected_text, corr_i, apply_log>>
          ELSE /\ corrected_text' = ApplyOne(corrected_text, correction)
               /\ apply_log' = Append(apply_log,
                     [correction |-> correction,
                      before |-> corrected_text,
                      after |-> ApplyOne(corrected_text, correction),
                      applied |-> CanApply(corrected_text, correction)])
               /\ corr_i' = corr_i + 1
               /\ corr_pc' = IF last THEN "return" ELSE "apply"
    /\ UNCHANGED <<text, llm_options, llm_reply, rule_corrections, llm_corrections,
                   all_corrections, corr_result,
                   notCorrVars>>

\* correction_stats = ..., and the dict of the try branch
ReportedCountApplied(corrections, log) ==
    Cardinality({i \in DOMAIN log : log[i].applied})
ReportedCount(corrections, log) == Len(corrections)

CorrReturn ==
    /\ corr_pc = "return"
    /\ corr_result' = [message |-> "completed",
                       original_text |-> text,
                       corrected_text |-> corrected_text,
                       corrections |-> all_corrections,
                       correction_count |-> ReportedCount(all_corrections, apply_log)]
    /\ corr_pc' = "done"
    /\ UNCHANGED <<text, llm_options, llm_reply, rule_corrections, llm_corrections,
                   all_corrections, corrected_text, corr_i, apply_log,
                   notCorrVars>>

\* "except Exception as e:" and the dict of the except branch
CorrExcept ==
    /\ corr_pc = "except"
    /\ corr_result' = [message |-> "failed",
                       original_text |-> text,
                       corrected_text |-> text,
                       corrections |-> <<>>,
                       correction_count |-> 0]
    /\ corr_pc' = "done"
    /\ UNCHANGED <<text, llm_options, llm_reply, rule_corrections, llm_corrections,
                   all_corrections, corrected_text, corr_i, apply_log,
                   notCorrVars>>

CorrNext == CorrRules \/ CorrLLM \/ CorrMerge \/ CorrApply \/ CorrReturn \/ CorrExcept

(***************************************************************************)
(* NERService._extract_entities_by_llm / _extract_entities_with_ollama     *)
(***************************************************************************)
\* most candidates in one reply when a wrapper is called on its own
MaxGenItems == 2

\* an entity dict of a generative reply; 'missing' names absent keys
GenEntityItems ==
    [text : MergeTexts, type : MergeTypes, method : {""}, confidence : {0},
     missing : {{}, {"text"}, {"type"}}]
GenCorrectionItems ==
    MalformedItems \cup {Correction(0, 1, <<"t">>, <<"Z">>, "spelling", 95, "", {})}

_extract_entities_with_ollama(reply) ==
    CatchException(CatchJSONDecodeError(ChatAndParse(reply, "ner")))

\* llm_options.get("provider", "ollama"): AttributeError on None
_extract_entities_by_llm(options, reply) ==
    CatchException(IF options = "None" THEN Raise("AttributeError")
                   ELSE IF options # "other"
                        THEN _extract_entities_with_ollama(reply)
                        ELSE Ok(<<>>))

GenReplies(items) ==
    {Reply(k, <<>>) : k \in FailureKinds}
      \cup {Reply("list", s) : s \in SeqsUpTo(items, MaxGenItems)}

GenInit ==
    /\ gen_service \in {"ner", "corr"}
    /\ gen_options \in LLMOptions
    /\ gen_reply \in GenReplies(IF gen_service = "ner" THEN GenEntityItems
                                ELSE GenCorrectionItems)
    /\ gen_out = Ok(<<>>)
    /\ gen_pc = "call"

GenIdle ==
    /\ gen_service = "ner" /\ gen_options = "None"
    /\ gen_reply = Reply("list", <<>>) /\ gen_out = Ok(<<>>) /\ gen_pc = "idle"

\* llm_entities = self._extract_entities_by_llm(text, llm_options)
GenCallNER ==
    /\ gen_pc = "call" /\ gen_service = "ner"
    /\ gen_out' = _extract_entities_by_llm(gen_options, gen_reply)
    /\ gen_pc' = "done"
    /\ UNCHANGED <<gen_service, gen_options, gen_reply, notGenVars>>

\* llm_corrections = self._correct_by_llm(text, llm_options)
GenCallCorr ==
    /\ gen_pc = "call" /\ gen_service = "corr"
    /\ gen_out' = _correct_by_llm(gen_options, gen_reply)
    /\ gen_pc' = "done"
    /\ UNCHANGED <<gen_service, gen_options, gen_reply, notGenVars>>

GenNext == GenCallNER \/ GenCallCorr

(***************************************************************************)
(* StdService.__init__ and standardize_text                                *)
(***************************************************************************)
\* most standardize_text calls on the one instance
MaxStdCalls == 3

Providers == {"huggingface", "openai", "azure"}
Models == {"BAAI/bge-m3", "text-embedding-ada-002"}
DbNames == {"financial_bge_m3", "financial_ada"}
CollectionNames == {"financial_concepts", "financial_terms"}

StdRequest(provider, model, db_name, collection) ==
    [provider |-> provider, model |-> model, db_name |-> db_name,
     collection_name |-> collection]
StdRequests ==
    {StdRequest(p, m, d, c) :
        p \in Providers, m \in Models, d \in DbNames, c \in CollectionNames}

\* the defaults of __init__ and of standardize_text
DefaultRequest ==
    StdRequest("huggingface", "BAAI/bge-m3", "financial_bge_m3", "financial_concepts")

\* provider_mapping.get(provider.lower()) is not None
SupportedProvider(provider) == provider \in {"openai", "bedrock", "huggingface"}

\* f"db/{db_name}.db"
DbPath(db_name) == <<"db/", db_name, ".db">>

\* the handles as a configuration
ActiveConfig ==
    [provider |-> embedding_func.provider, model |-> embedding_func.model,
     db_path |-> client, collection_name |-> collection_name]
ConfigOf(req) ==
    [provider |-> req.provider, model |-> req.model,
     db_path |-> DbPath(req.db_name), collection_name |-> req.collection_name]

\* "if (provider != "huggingface" or model != "BAAI/bge-m3" or
\*      db_name != "financial_bge_m3" or collection_name != "financial_concepts")"
NeedsReinit(req) ==
    \/ req.provider # "huggingface"
    \/ req.model # "BAAI/bge-m3"
    \/ req.db_name # "financial_bge_m3"
    \/ req.collection_name # "financial_concepts"

NoStdResult == [message |-> "none"]
NoSearch == [searched |-> FALSE]

\* the instance main.py builds at import: StdService() with the defaults
StdInit ==
    /\ embedding_func = [provider |-> "huggingface", model |-> "BAAI/bge-m3"]
    /\ client = DbPath("financial_bge_m3")
    /\ collection_name = "financial_concepts"
    /\ std_req = DefaultRequest
    /\ std_pc = "idle"
    /\ std_result = NoStdResult
    /\ std_calls = 0
    /\ std_at_call = ConfigOf(DefaultRequest)
    /\ std_reinit = FALSE
    /\ search_used = NoSearch
    /\ installed_from = [embedding_func |-> ConfigOf(DefaultRequest),
                         client |-> ConfigOf(DefaultRequest),
                         collection_name |-> ConfigOf(DefaultRequest)]

StdIdle == StdInit

\* a request calls standardize_text(text, provider, model, db_name, collection_name)
StdCall ==
    /\ std_pc = "idle"
    /\ std_calls < MaxStdCalls
    /\ std_req' \in StdRequests
    /\ std_calls' = std_calls + 1
    /\ std_at_call' = ActiveConfig
    /\ std_reinit' = FALSE
    /\ search_used' = NoSearch
    /\ std_result' = NoStdResult
    /\ std_pc' = "check"
    /\ UNCHANGED <<embedding_func, client, collection_name, installed_from, notStdVars>>

\* the test of line 124-125
StdCheck ==
    /\ std_pc = "check"
    /\ std_pc' = IF NeedsReinit(std_req) THEN "init_embedding" ELSE "search"
    /\ UNCHANGED <<embedding_func, client, collection_name, std_req, std_result,
                   std_calls, std_at_call, std_reinit, search_used, installed_from,
                   notStdVars>>

\* __init__, lines 35-50: the provider lookup (ValueError when unsupported),
\* then self.embedding_func = EmbeddingFactory.create_embedding_function(config)
StdInitEmbedding ==
    /\ std_pc = "init_embedding"
    /\ std_reinit' = TRUE
    /\ IF SupportedProvider(std_req.provider)
       THEN /\ embedding_func' = [provider |-> std_req.provider, model |-> std_req.model]
            /\ installed_from' = [installed_from EXCEPT !.embedding_func = ConfigOf(std_req)]
            /\ std_pc' = "init_client"
       ELSE /\ std_pc' = "except"
            /\ UNCHANGED <<embedding_func, installed_from>>
    /\ UNCHANGED <<client, collection_name, std_req, std_result, std_calls,
                   std_at_call, search_used, notStdVars>>

\* __init__, line 53: self.client = MilvusClient(db_path), which may raise
StdInitClient ==
    /\ std_pc = "init_client"
    /\ \/ /\ client' = DbPath(std_req.db_name)
          /\ installed_from' = [installed_from EXCEPT !.client = ConfigOf(std_req)]
          /\ std_pc' = "init_collection"
       \/ /\ std_pc' = "except"
          /\ UNCHANGED <<client, installed_from>>
    /\ UNCHANGED <<embedding_func, collection_name, std_req, std_result, std_calls,
                   std_at_call, std_reinit, search_used, notStdVars>>

\* __init__, lines 54-55: self.collection_name = collection_name, then
\* self.client.load_collection(self.collection_name), which may raise
StdInitCollection ==
    /\ std_pc = "init_collection"
    /\ collection_name' = std_req.collection_name
    /\ installed_from' = [installed_from EXCEPT !.collection_name = ConfigOf(std_req)]
    /\ std_pc' \in {"search", "except"}
    /\ UNCHANGED <<embedding_func, client, std_req, std_result, std_calls,
                   std_at_call, std_reinit, search_used, notStdVars>>

\* search_similar_terms(text, limit=3): it reads self.embedding_func,
\* self.collection_name and self.client; self.embedding_func is the plain
\* function the factory returns, so ".embed_query" raises AttributeError
StdSearch ==
    /\ std_pc = "search"
    /\ search_used' = [searched |-> TRUE,
                       provider |-> embedding_func.provider,
                       model |-> embedding_func.model,
                       db_path |-> client,
                       collection_name |-> collection_name]
    /\ std_pc' = "except"
    /\ UNCHANGED <<embedding_func, client, collection_name, std_req, std_result,
                   std_calls, std_at_call, std_reinit, installed_from, notStdVars>>

\* the dict of lines 164-169
StdFailureRaised ==
    [message |-> "raised", standardized_terms |-> <<>>, confidence |-> 0]
StdFailureResult ==
    [message |-> "failed", standardized_terms |-> <<>>, confidence |-> 0]

\* "except Exception as e:" and the dict it returns
StdExcept ==
    /\ std_pc = "except"
    /\ std_result' = StdFailureResult
    /\ std_pc' = "idle"
    /\ UNCHANGED <<embedding_func, client, collection_name, std_req, std_calls,
                   std_at_call, std_reinit, search_used, installed_from, notStdVars>>

StdNext ==
    \/ StdCall \/ StdCheck \/ StdInitEmbedding \/ StdInitClient
    \/ StdInitCollection \/ StdSearch \/ StdExcept

(***************************************************************************)
(* NERService.extract_entities and its helpers                             *)
(***************************************************************************)
\* longest request text and most candidates in one generative reply
MaxNerTextLen == 4
MaxNerItems == 2

\* the text alphabet: two characters are enough for a literal to occur
\* twice, to contain another literal and to occur at a later offset
NerChars == {"a", "b"}
NerTexts == SeqsUpTo(NerChars, MaxNerTextLen)

\* self.entity_patterns, reduced: a literal listed under two categories
\* (as "基金" is under COMPANY and PRODUCT) and a longer literal containing
\* it (as "信用风险" contains "风险"); like the literals of the code, none
\* can overlap itself; dict order is insertion order
entity_patterns ==
    << [type |-> "COMPANY", patterns |-> << <<"a", "b">> >>],
       [type |-> "PRODUCT", patterns |-> << <<"a", "b">>, <<"b", "a">> >>],
       [type |-> "RISK", patterns |-> << <<"a", "a", "b">> >>] >>

Entity(txt, type, start, end, method, confidence, missing) ==
    [text |-> txt, type |-> type, start |-> start, end |-> end,
     method |-> method, confidence |-> confidence, missing |-> missing]

\* text.rfind(pattern), for a pattern that occurs
FindLast(s, pat) == CHOOSE i \in 0..Len(s) :
    /\ StartsAt(s, pat, i)
    /\ \A j \in (i + 1)..Len(s) : ~StartsAt(s, pat, j)

\* start_pos = text.find(pattern)
RuleStartLast(s, pat) == FindLast(s, pat)
RuleStart(s, pat) == Find(s, pat)

\* the inner loop "for pattern in patterns: if pattern in text: ..."
RECURSIVE RulesOfType(_, _, _)
RulesOfType(s, type, patterns) ==
    IF patterns = <<>> THEN <<>>
    ELSE LET pattern == Head(patterns)
             start_pos == RuleStart(s, pattern)
             found == IF Contains(s, pattern)
                      THEN << Entity(pattern, type, start_pos,
                                     start_pos + Len(pattern), "rule_based", 70, {}) >>
                      ELSE <<>>
         IN found \o RulesOfType(s, type, Tail(patterns))

\* the outer loop "for entity_type, patterns in self.entity_patterns.items()"
RECURSIVE RulesOver(_, _)
RulesOver(s, table) ==
    IF table = <<>> THEN <<>>
    ELSE RulesOfType(s, Head(table).type, Head(table).patterns)
           \o RulesOver(s, Tail(table))

_extract_entities_by_rules(s) == RulesOver(s, entity_patterns)

\* _extract_entities_by_vector: "return []"
_extract_entities_by_vector == <<>>

\* text.count(pat): occurrences counted left to right without overlap
RECURSIVE CountFrom(_, _, _)
CountFrom(s, pat, i) ==
    IF pat = <<>> THEN Len(s) + 1 - i
    ELSE IF i + Len(pat) > Len(s) THEN 0
    ELSE IF StartsAt(s, pat, i) THEN 1 + CountFrom(s, pat, i + Len(pat))
    ELSE CountFrom(s, pat, i + 1)
Count(s, pat) == CountFrom(s, pat, 0)

(***************************************************************************)
(* NERService._calculate_confidence.  A source confidence is in hundredths,*)
(* a method weight in hundredths, the two adjustments in tenths; their     *)
(* product, the final confidence, is therefore in millionths.              *)
(***************************************************************************)
One == 1000000

\* "if method == 'rule_based': *= 0.9 / 'llm_based': *= 1.0 /
\*  'vector_based': *= 0.95", nothing for any other method
MethodWeightFlat(method) == 100
MethodWeight(method) ==
    CASE method = "rule_based"   -> 90
      [] method = "llm_based"    -> 100
      [] method = "vector_based" -> 95
      [] OTHER                   -> 100

\* "if entity_length >= 3: *= 1.1 / elif entity_length <= 1: *= 0.8"
LengthAdjustment(entity_length) ==
    IF entity_length >= 3 THEN 11
    ELSE IF entity_length <= 1 THEN 8
    ELSE 10

\* "if frequency == 1: *= 1.0 / elif frequency > 1: *= 0.9"
FrequencyAdjustment(frequency) ==
    IF frequency = 1 THEN 10
    ELSE IF frequency > 1 THEN 9
    ELSE 10

\* "return min(base_confidence, 1.0)"
Clamp(c) == Min(c, One)

_calculate_confidence(entity, s) ==
    Clamp(entity.confidence * MethodWeight(entity.method)
            * LengthAdjustment(Len(entity.text))
            * FrequencyAdjustment(Count(s, entity.text)))

\* "for entity in all_entities: entity['confidence'] = ..."
Scored(entities, s) ==
    [i \in DOMAIN entities |->
        [entities[i] EXCEPT !.confidence = _calculate_confidence(entities[i], s)]]

\* "all_entities.sort(key=lambda x: x['confidence'], reverse=True)": list.sort
\* is stable, also with reverse=True
RECURSIVE InsertByConfidence(_, _)
InsertByConfidence(sorted, entity) ==
    IF sorted = <<>> THEN <<entity>>
    ELSE IF Head(sorted).confidence >= entity.confidence
         THEN <<Head(sorted)>> \o InsertByConfidence(Tail(sorted), entity)
         ELSE <<entity>> \o sorted
RECURSIVE SortLoop(_, _)
SortLoop(entities, sorted) ==
    IF entities = <<>> THEN sorted
    ELSE SortLoop(Tail(entities), InsertByConfidence(sorted, Head(entities)))
SortTiesReversed(entities) == SortLoop(Reversed(entities), <<>>)
SortByConfidence(entities) == SortLoop(entities, <<>>)

(***************************************************************************)
(* extract_entities, step by step                                          *)
(***************************************************************************)
\* what a generative reply may put in an entity: a text of length 1, 2 or 3,
\* offsets that are either (0, len(text)) or inverted, its own confidence
\* (overwritten by the tagging loop), and possibly no 'type' key
NerItemTexts == {<<"a">>, <<"a", "b">>, <<"a", "a", "b">>}
NerReplyItems ==
    {Entity(t, "COMPANY", IF inverted THEN 1 ELSE 0, IF inverted THEN 0 ELSE Len(t),
            "", -50, m) :
        t \in NerItemTexts, inverted \in BOOLEAN, m \in {{}, {"type"}}}
NerReplies ==
    {Reply(k, <<>>) : k \in FailureKinds}
      \cup {Reply("list", s) : s \in SeqsUpTo(NerReplyItems, MaxNerItems)}
NerOptions == {"ollama", "other"}

NoNerResult == [message |-> "none"]

NerInit ==
    /\ ner_text \in NerTexts
    /\ ner_options \in NerOptions
    /\ ner_reply \in NerReplies
    /\ ner_rule = <<>> /\ ner_llm = <<>> /\ ner_vector = <<>> /\ ner_all = <<>>
    /\ ner_pc = "rules"
    /\ ner_result = NoNerResult

NerIdle ==
    /\ ner_text = <<>> /\ ner_options = "ollama" /\ ner_reply = Reply("list", <<>>)
    /\ ner_rule = <<>> /\ ner_llm = <<>> /\ ner_vector = <<>> /\ ner_all = <<>>
    /\ ner_pc = "idle"
    /\ ner_result = NoNerResult

\* rule_entities = self._extract_entities_by_rules(text)
NerRules ==
    /\ ner_pc = "rules"
    /\ ner_rule' = _extract_entities_by_rules(ner_text)
    /\ ner_pc' = "llm"
    /\ UNCHANGED <<ner_text, ner_options, ner_reply, ner_llm, ner_vector, ner_all,
                   ner_result, notNerVars>>

\* llm_entities = self._extract_entities_by_llm(text, llm_options)
NerLLM ==
    /\ ner_pc = "llm"
    /\ ChatReturns(ner_options, ner_reply)
    /\ ner_llm' = _extract_entities_by_llm(ner_options, ner_reply).value
    /\ ner_pc' = "vector"
    /\ UNCHANGED <<ner_text, ner_options, ner_reply, ner_rule, ner_vector, ner_all,
                   ner_result, notNerVars>>

\* vector_entities = self._extract_entities_by_vector(...)
NerVector ==
    /\ ner_pc = "vector"
    /\ ner_vector' = _extract_entities_by_vector
    /\ ner_pc' = "merge"
    /\ UNCHANGED <<ner_text, ner_options, ner_reply, ner_rule, ner_llm, ner_all,
                   ner_result, notNerVars>>

\* entity['text'] or entity['type'] of a dict without that key: KeyError
EntityKeyRaises(entity) == ~HasKey(entity, "text") \/ ~HasKey(entity, "type")

\* all_entities = self._merge_entities(rule_entities, llm_entities, vector_entities)
NerMerge ==
    /\ ner_pc = "merge"
    /\ IF \E i \in DOMAIN ner_llm : EntityKeyRaises(ner_llm[i])
       THEN /\ ner_pc' = "except"
            /\ UNCHANGED ner_all
       ELSE /\ ner_all' = _merge_entities(ner_rule, ner_llm, ner_vector)
            /\ ner_pc' = "score"
    /\ UNCHANGED <<ner_text, ner_options, ner_reply, ner_rule, ner_llm, ner_vector,
                   ner_result, notNerVars>>

\* the loop of lines 77-78
NerScore ==
    /\ ner_pc = "score"
    /\ ner_all' = Scored(ner_all, ner_text)
    /\ ner_pc' = "sort"
    /\ UNCHANGED <<ner_text, ner_options, ner_reply, ner_rule, ner_llm, ner_vector,
                   ner_result, notNerVars>>

\* line 81
NerSort ==
    /\ ner_pc = "sort"
    /\ ner_all' = SortByConfidence(ner_all)
    /\ ner_pc' = "return"
    /\ UNCHANGED <<ner_text, ner_options, ner_reply, ner_rule, ner_llm, ner_vector,
                   ner_result, notNerVars>>

\* lines 83-89
NerReturn ==
    /\ ner_pc = "return"
    /\ ner_result' = [text |-> ner_text,
                      entities |-> ner_all,
                      entity_count |-> Len(ner_all),
                      entity_types |-> {ner_all[i].type : i \in DOMAIN ner_all},
                      message |-> "completed"]
    /\ ner_pc' = "done"
    /\ UNCHANGED <<ner_text, ner_options, ner_reply, ner_rule, ner_llm, ner_vector,
                   ner_all, notNerVars>>

\* lines 91-99
NerExcept ==
    /\ ner_pc = "except"
    /\ ner_result' = [text |-> ner_text, entities |-> <<>>, entity_count |-> 0,
                      entity_types |-> {}, message |-> "failed"]
    /\ ner_pc' = "done"
    /\ UNCHANGED <<ner_text, ner_options, ner_reply, ner_rule, ner_llm, ner_vector,
                   ner_all, notNerVars>>

NerNext ==
    \/ NerRules \/ NerLLM \/ NerVector \/ NerMerge
    \/ NerScore \/ NerSort \/ NerReturn \/ NerExcept

(***************************************************************************)
(* StdService.standardize_text, lines 131-160: the result built from the   *)
(* hits of a search.  Distances and confidences are in hundredths.         *)
(***************************************************************************)
\* standardize_text asks for limit=3
MaxHits == 3

\* the distances a hit may carry: 0, inside (0, 1), 1 and beyond 1
Distances == {0, 30, 60, 100, 200}
TermNames == {"term"}
Hits == [term_name : TermNames, distance : Distances]
\* the hits in the order the search ranks them
HitLists == SeqsUpTo(Hits, MaxHits)

\* "1.0 - min(term['distance'], 1.0)"
HitConfidenceUnclamped(distance) == 100 - distance
HitConfidence(distance) == 100 - Min(distance, 100)

\* "if not similar_terms: return {...}"; else best_match = similar_terms[0],
\* the loop over similar_terms and the dict of lines 154-160
StandardizeHits(similar_terms) ==
    IF similar_terms = <<>>
    THEN [standardized_terms |-> <<>>, confidence |-> 0, best_match |-> "",
          message |-> "no_match"]
    ELSE LET best_match == similar_terms[1]
         IN [standardized_terms |->
                 [i \in DOMAIN similar_terms |->
                     [standard_term |-> similar_terms[i].term_name,
                      confidence |-> HitConfidence(similar_terms[i].distance)]],
             confidence |-> HitConfidence(best_match.distance),
             best_match |-> best_match.term_name,
             message |-> "completed"]

ScoreInit ==
    /\ score_hits \in HitLists
    /\ score_out = [message |-> "none"]
    /\ score_pc = "call"

ScoreIdle ==
    score_hits = <<>> /\ score_out = [message |-> "none"] /\ score_pc = "idle"

\* lines 131-160 on the hits of line 129
ScoreCall ==
    /\ score_pc = "call"
    /\ score_out' = StandardizeHits(score_hits)
    /\ score_pc' = "done"
    /\ UNCHANGED <<score_hits, notScoreVars>>

ScoreNext == ScoreCall

(***************************************************************************)
(* utils/embedding_config.py and utils/embedding_factory.py.  A Python     *)
(* value is a record [kind, value]: a str and an Enum member with the same *)
(* value are different values and compare unequal.                         *)
(***************************************************************************)
Str(s) == [kind |-> "str", value |-> s]
Member(s) == [kind |-> "EmbeddingProvider", value |-> s]
None == [kind |-> "NoneType", value |-> "None"]

\* class EmbeddingProvider(Enum)
OPENAI == Member("openai")
BEDROCK == Member("bedrock")
HUGGINGFACE == Member("huggingface")

\* provider_mapping.get(provider.lower()) of StdService.__init__
provider_mapping(provider) ==
    CASE provider = "openai" -> OPENAI
      [] provider = "bedrock" -> BEDROCK
      [] provider = "huggingface" -> HUGGINGFACE
      [] OTHER -> None

\* EmbeddingConfig(provider=..., model_name=...): with use_enum_values = True
\* the model stores the value of an Enum member, not the member
UseEnumValues(member) == Str(member.value)
EmbeddingConfig(provider, model_name) ==
    [provider |-> UseEnumValues(provider), model_name |-> model_name]

\* the functions the factory can return: who made it and for which model
EmbedFunction(made_by, model_name) == [made_by |-> made_by, model_name |-> model_name]
NoFunction == EmbedFunction("none", "")

\* _create_default_embedding
_create_default_embedding == EmbedFunction("default", "")

\* _create_huggingface_embedding, _create_openai_embedding and
\* _create_bedrock_embedding: the import and the set-up inside try; on
\* ImportError or any other exception the default function
CreateFor(made_by, config, library) ==
    IF library = "loads" THEN EmbedFunction(made_by, config.model_name)
    ELSE _create_default_embedding

\* create_embedding_function: the if/elif chain on config.provider, the
\* ValueError of the else branch and the except that returns the default
create_embedding_function(config, library) ==
    IF config.provider = HUGGINGFACE THEN CreateFor("huggingface", config, library)
    ELSE IF config.provider = OPENAI THEN CreateFor("openai", config, library)
    ELSE IF config.provider = BEDROCK THEN CreateFor("bedrock", config, library)
    ELSE _create_default_embedding

\* get_embedding_dimension(provider, model_name):
\* dimension_map.get(provider, {}).get(model_name, 1024)
DimensionOfModel(model_name) ==
    CASE model_name = "BAAI/bge-m3" -> 1024
      [] model_name = "BAAI/bge-large-zh" -> 1024
      [] model_name = "BAAI/bge-base-zh" -> 768
      [] model_name = "sentence-transformers/all-MiniLM-L6-v2" -> 384
      [] model_name = "sentence-transformers/all-mpnet-base-v2" -> 768
      [] model_name = "text-embedding-ada-002" -> 1536
      [] model_name = "text-embedding-3-small" -> 1536
      [] model_name = "text-embedding-3-large" -> 3072
      [] model_name = "amazon.titan-embed-text-v1" -> 1536
      [] model_name = "cohere.embed-english-v3" -> 1024
      [] model_name = "cohere.embed-multilingual-v3" -> 1024
      [] OTHER -> 1024
DimensionByModelOnly(provider, model_name) == DimensionOfModel(model_name)
HuggingfaceModels == {"BAAI/bge-m3", "BAAI/bge-large-zh", "BAAI/bge-base-zh",
                      "sentence-transformers/all-MiniLM-L6-v2",
                      "sentence-transformers/all-mpnet-base-v2"}
OpenaiModels == {"text-embedding-ada-002", "text-embedding-3-small",
                 "text-embedding-3-large"}
BedrockModels == {"amazon.titan-embed-text-v1", "cohere.embed-english-v3",
                  "cohere.embed-multilingual-v3"}
get_embedding_dimension(provider, model_name) ==
    CASE provider = HUGGINGFACE /\ model_name \in HuggingfaceModels ->
             DimensionOfModel(model_name)
      [] provider = OPENAI /\ model_name \in OpenaiModels ->
             DimensionOfModel(model_name)
      [] provider = BEDROCK /\ model_name \in BedrockModels ->
             DimensionOfModel(model_name)
      [] OTHER -> 1024

\* a vector: its length and whether every component is 0.0
Vector(length, zero) == [length |-> length, zero |-> zero]
NoVector == Vector(0, FALSE)

\* embed_query(text) of each function: the provider's vector, or the
\* hard-coded zero vector of its except branch; the bedrock function and the
\* default function return [0.0] * 1024 always
embed_query(func, provider, call_fails) ==
    CASE func.made_by = "huggingface" ->
             IF call_fails THEN Vector(1024, TRUE)
             ELSE Vector(get_embedding_dimension(provider, func.model_name), FALSE)
      [] func.made_by = "openai" ->
             IF call_fails THEN Vector(1536, TRUE)
             ELSE Vector(get_embedding_dimension(provider, func.model_name), FALSE)
      [] func.made_by = "bedrock" -> Vector(1024, TRUE)
      [] func.made_by = "default" -> Vector(1024, TRUE)

EmbProviders == {"huggingface", "openai", "bedrock", "azure"}
EmbModels == {"BAAI/bge-m3", "BAAI/bge-base-zh", "text-embedding-ada-002",
              "text-embedding-3-large", "amazon.titan-embed-text-v1", "unregistered"}
LibraryOutcomes == {"loads", "import_error", "error"}

EmbInit ==
    /\ emb_provider \in EmbProviders
    /\ emb_model \in EmbModels
    /\ emb_library \in LibraryOutcomes
    /\ emb_call_fails \in BOOLEAN
    /\ emb_func = NoFunction
    /\ emb_vec = NoVector
    /\ emb_pc = "create"

EmbIdle ==
    /\ emb_provider = "huggingface" /\ emb_model = "BAAI/bge-m3"
    /\ emb_library = "loads" /\ emb_call_fails = FALSE
    /\ emb_func = NoFunction /\ emb_vec = NoVector /\ emb_pc = "idle"

\* StdService.__init__, lines 42-50: the provider lookup, its ValueError,
\* EmbeddingConfig(...) and create_embedding_function(config)
EmbCreate ==
    /\ emb_pc = "create"
    /\ IF provider_mapping(emb_provider) = None
       THEN /\ emb_pc' = "raised"
            /\ UNCHANGED emb_func
       ELSE /\ emb_func' = create_embedding_function(
                               EmbeddingConfig(provider_mapping(emb_provider), emb_model),
                               emb_library)
            /\ emb_pc' = "query"
    /\ UNCHANGED <<emb_provider, emb_model, emb_library, emb_call_fails, emb_vec,
                   notEmbVars>>

\* a call of the returned function on a query text
EmbQuery ==
    /\ emb_pc = "query"
    /\ emb_vec' = embed_query(emb_func, provider_mapping(emb_provider), emb_call_fails)
    /\ emb_pc' = "done"
    /\ UNCHANGED <<emb_provider, emb_model, emb_library, emb_call_fails, emb_func,
                   notEmbVars>>

EmbNext == EmbCreate \/ EmbQuery

(***************************************************************************)
(* get_embedding_dimension on its own: every provider value a caller can   *)
(* pass (a member of the Enum, the str a stored config holds, None) and    *)
(* every registered model name or an unregistered one                      *)
(***************************************************************************)
DimProviders == {HUGGINGFACE, OPENAI, BEDROCK, None,
                 Str("huggingface"), Str("openai"), Str("bedrock"), Str("azure")}
DimModels == HuggingfaceModels \cup OpenaiModels \cup BedrockModels \cup {"unregistered"}

DimInit ==
    /\ dim_provider \in DimProviders
    /\ dim_model \in DimModels
    /\ dim_out = 0
    /\ dim_pc = "call"

DimIdle ==
    dim_provider = None /\ dim_model = "unregistered" /\ dim_out = 0 /\ dim_pc = "idle"

DimCall ==
    /\ dim_pc = "call"
    /\ dim_out' = get_embedding_dimension(dim_provider, dim_model)
    /\ dim_pc' = "done"
    /\ UNCHANGED <<dim_provider, dim_model, notDimVars>>

DimNext == DimCall

(***************************************************************************)
(* extract_entities and correct_text when the annotator may stay silent:   *)
(* the same steps as above, from requests whose generative reply is one of *)
(* the failures, a short list, or no reply at all                          *)
(***************************************************************************)
NerAwaitInit ==
    /\ ner_text \in NerTexts
    /\ ner_options \in NerOptions
    /\ ner_reply \in NerReplies \cup {NoResponse}
    /\ ner_rule = <<>> /\ ner_llm = <<>> /\ ner_vector = <<>> /\ ner_all = <<>>
    /\ ner_pc = "rules"
    /\ ner_result = NoNerResult

CorrAwaitReplies ==
    {Reply(k, <<>>) : k \in FailureKinds} \cup {NoResponse}
      \cup {Reply("list", items) : items \in SeqsUpTo(ReplyItems, 1)}

CorrAwaitInit ==
    /\ text \in Texts
    /\ llm_options \in LLMOptions
    /\ llm_reply \in CorrAwaitReplies
    /\ rule_corrections = <<>>
    /\ llm_corrections = <<>>
    /\ all_corrections = <<>>
    /\ corrected_text = <<>>
    /\ corr_i = 0
    /\ corr_pc = "rules"
    /\ corr_result = NoResult
    /\ apply_log = <<>>

\* the steps of both operations; a FastAPI handler that has been started
\* runs each step that can run
AwaitNext ==
    \/ NerRules \/ NerLLM \/ NerVector \/ NerMerge \/ NerScore \/ NerSort
    \/ NerReturn \/ NerExcept
    \/ CorrRules \/ CorrLLM \/ CorrMerge \/ CorrApply \/ CorrReturn \/ CorrExcept

(***************************************************************************)
(* _merge_corrections and _apply_corrections on their own: one CorrService *)
(* instance serves an earlier request and then the same request twice.     *)
(* The generative lists are what _correct_by_llm hands over (well-formed   *)
(* dicts tagged llm_based); their spans may be inverted and their original *)
(* may be empty.                                                           *)
(***************************************************************************)
MaxApplierItems == 2

ApplierStarts == {0, 1}
ApplierEnds == {0, 2}
ApplierOriginals == {<<>>, <<"t", "Z">>}
\* texts without a dictionary entry, with the pattern alone, with the typo,
\* and with the typo followed by the pattern
ApplierTexts == {<<>>, <<"Z">>, <<"z", "t">>, <<"t", "Z">>, <<"t", "z">>,
                 <<"t", "z", "t", "Z">>}
ApplierItems ==
    {Correction(s, e, o, c, "spelling", 95, "llm_based", {}) :
        s \in ApplierStarts, e \in ApplierEnds, o \in ApplierOriginals,
        c \in Replacements}
ApplierRequest(s, llm) == [text |-> s, llm |-> llm]
ApplierRequests ==
    {ApplierRequest(s, llm) :
        s \in ApplierTexts, llm \in SeqsUpTo(ApplierItems, MaxApplierItems)}
\* the request served before: nothing to correct, or the typo with a
\* generative candidate on the typo's span
EarlierRequests ==
    {ApplierRequest(<<"Z">>, <<>>),
     ApplierRequest(<<"t", "z">>,
        <<Correction(0, 2, <<"t", "z">>, <<"Z">>, "spelling", 95, "llm_based", {})>>),
     ApplierRequest(<<"t", "Z">>,
        <<Correction(1, 0, <<>>, <<"Z">>, "spelling", 95, "llm_based", {})>>)}

\* what the loop of _apply_corrections does with each entry it visits
RECURSIVE ApplyLog(_, _)
ApplyLog(current, visit) ==
    IF visit = <<>> THEN <<>>
    ELSE <<[correction |-> Head(visit),
            before |-> current,
            after |-> ApplyOne(current, Head(visit)),
            applied |-> CanApply(current, Head(visit))]>>
           \o ApplyLog(ApplyOne(current, Head(visit)), Tail(visit))

ApplierInit ==
    /\ \E p \in EarlierRequests : \E x \in ApplierRequests : app_queue = <<p, x, x>>
    /\ app_seen = {}
    /\ app_outs = <<>>

ApplierIdle == app_queue = <<>> /\ app_seen = {} /\ app_outs = <<>>

\* lines 105-111 of correct_text for the next request: the rule candidates,
\* all_corrections = self._merge_corrections(...), then
\* corrected_text = self._apply_corrections(text, all_corrections)
ApplierRun ==
    /\ app_queue # <<>>
    /\ LET rq == Head(app_queue)
           rule == _correct_by_rules(rq.text)
           merged == MergeCorrections(app_seen, rule, rq.llm)
       IN /\ app_outs' = Append(app_outs,
                [text |-> rq.text,
                 rule |-> rule,
                 llm |-> rq.llm,
                 merged |-> merged.value,
                 log |-> ApplyLog(rq.text, VisitOrder(merged.value)),
                 result |-> _apply_corrections(rq.text, merged.value).value])
          /\ app_seen' = merged.seen
    /\ app_queue' = Tail(app_queue)
    /\ UNCHANGED notApplierVars

ApplierNext == ApplierRun

(***************************************************************************)
(* Specifications: one per component; the other components stay idle       *)
(***************************************************************************)
\* _merge_entities on every bounded combination of candidate lists
InitMerge ==
    /\ MergeInit
    /\ CorrIdle /\ GenIdle /\ StdIdle /\ NerIdle /\ RulesIdle
    /\ ScoreIdle /\ EmbIdle /\ DimIdle /\ ApplierIdle
SpecMerge == InitMerge /\ [][MergeNext]_vars

\* correct_text on every bounded text and generative reply
InitCorr ==
    /\ CorrInit
    /\ MergeIdle /\ GenIdle /\ StdIdle /\ NerIdle /\ RulesIdle
    /\ ScoreIdle /\ EmbIdle /\ DimIdle /\ ApplierIdle
SpecCorr == InitCorr /\ [][CorrNext]_vars

\* the generative wrappers of both services on every bounded reply
InitGen ==
    /\ GenInit
    /\ MergeIdle /\ CorrIdle /\ StdIdle /\ NerIdle /\ RulesIdle
    /\ ScoreIdle /\ EmbIdle /\ DimIdle /\ ApplierIdle
SpecGen == InitGen /\ [][GenNext]_vars

\* a bounded sequence of standardize_text calls on the shared instance
InitStd ==
    /\ StdInit
    /\ MergeIdle /\ CorrIdle /\ GenIdle /\ NerIdle /\ RulesIdle
    /\ ScoreIdle /\ EmbIdle /\ DimIdle /\ ApplierIdle
SpecStd == InitStd /\ [][StdNext]_vars

\* extract_entities on every bounded text and generative reply
InitNer ==
    /\ NerInit
    /\ MergeIdle /\ CorrIdle /\ GenIdle /\ StdIdle /\ RulesIdle
    /\ ScoreIdle /\ EmbIdle /\ DimIdle /\ ApplierIdle
SpecNer == InitNer /\ [][NerNext]_vars

\* _correct_by_rules on every bounded text
InitRules ==
    /\ RulesInit
    /\ MergeIdle /\ CorrIdle /\ GenIdle /\ StdIdle /\ NerIdle
    /\ ScoreIdle /\ EmbIdle /\ DimIdle /\ ApplierIdle
SpecRules == InitRules /\ [][RulesNext]_vars

\* the result part of standardize_text on every bounded list of hits
InitScore ==
    /\ ScoreInit
    /\ MergeIdle /\ CorrIdle /\ GenIdle /\ StdIdle /\ NerIdle
    /\ RulesIdle /\ EmbIdle /\ DimIdle /\ ApplierIdle
SpecScore == InitScore /\ [][ScoreNext]_vars

\* the embedding factory on every configuration and library outcome
InitEmb ==
    /\ EmbInit
    /\ MergeIdle /\ CorrIdle /\ GenIdle /\ StdIdle /\ NerIdle
    /\ RulesIdle /\ ScoreIdle /\ DimIdle /\ ApplierIdle
SpecEmb == InitEmb /\ [][EmbNext]_vars

\* get_embedding_dimension on every provider value and model name
InitDim ==
    /\ DimInit
    /\ MergeIdle /\ CorrIdle /\ GenIdle /\ StdIdle /\ NerIdle
    /\ RulesIdle /\ ScoreIdle /\ EmbIdle /\ ApplierIdle
SpecDim == InitDim /\ [][DimNext]_vars

\* merging and applying for an earlier request and one request served twice
InitApplier ==
    /\ ApplierInit
    /\ MergeIdle /\ CorrIdle /\ GenIdle /\ StdIdle /\ NerIdle
    /\ RulesIdle /\ ScoreIdle /\ EmbIdle /\ DimIdle
SpecApplier == InitApplier /\ [][ApplierNext]_vars

\* one request to either operation, the annotator possibly silent; every
\* step that stays enabled is eventually taken
InitAwait ==
    \/ /\ NerAwaitInit
       /\ MergeIdle /\ CorrIdle /\ GenIdle /\ StdIdle /\ RulesIdle
       /\ ScoreIdle /\ EmbIdle /\ DimIdle /\ ApplierIdle
    \/ /\ CorrAwaitInit
       /\ MergeIdle /\ GenIdle /\ StdIdle /\ NerIdle /\ RulesIdle
       /\ ScoreIdle /\ EmbIdle /\ DimIdle /\ ApplierIdle
SpecAwait == InitAwait /\ [][AwaitNext]_vars /\ WF_vars(AwaitNext)

(***************************************************************************)
(* Claims about _merge_entities (checked under SpecMerge)                  *)
(***************************************************************************)
MergeInput == rule_entities \o llm_entities \o vector_entities
SameKey(a, b) == a.text = b.text /\ a.type = b.type
Proposes(entities, e) == \E i \in DOMAIN entities : SameKey(entities[i], e)

\* C1: the merged output holds at most one entry per (text, type) key, and
\* that entry is the one of the highest-priority source proposing the key
\* (rule, then generative, then vector): the first entry with that key in
\* rule ++ generative ++ vector, whatever the confidences.
C1_MergeKeepsHighestPriority ==
    merge_pc = "done" =>
      /\ \A i, j \in DOMAIN all_entities :
            i # j => ~SameKey(all_entities[i], all_entities[j])
      /\ \A i \in DOMAIN all_entities :
            LET e == all_entities[i] IN
            /\ \E k \in DOMAIN MergeInput :
                  /\ MergeInput[k] = e
                  /\ \A m \in 1..(k - 1) : ~SameKey(MergeInput[m], e)
            /\ Proposes(rule_entities, e) => e.method = "rule_based"
            /\ (~Proposes(rule_entities, e) /\ Proposes(llm_entities, e))
                  => e.method = "llm_based"

\* C1 witness: a rule candidate and a generative candidate of higher
\* confidence share a key, and the merged output holds the rule one.
C1_Witness ==
    /\ merge_pc = "done"
    /\ \E r \in DOMAIN rule_entities : \E l \in DOMAIN llm_entities :
          /\ SameKey(rule_entities[r], llm_entities[l])
          /\ llm_entities[l].confidence > rule_entities[r].confidence
          /\ \E i \in DOMAIN all_entities : all_entities[i] = rule_entities[r]
          /\ \A i \in DOMAIN all_entities : all_entities[i] # llm_entities[l]

SameNormalizedKey(a, b) == LowerText(a.text) = LowerText(b.text) /\ a.type = b.type

FirstOfKey ==
    {k \in DOMAIN MergeInput :
        \A m \in 1..(k - 1) : ~SameKey(MergeInput[m], MergeInput[k])}
NthFirstOfKey(n) ==
    CHOOSE k \in FirstOfKey : Cardinality({m \in FirstOfKey : m <= k}) = n
SourceRank(e) ==
    CASE e.method = "rule_based" -> 1
      [] e.method = "llm_based" -> 2
      [] e.method = "vector_based" -> 3

\* C27: the merged list, before scoring, is rule ++ generative ++ vector with
\* every later entry of an already seen key removed: the survivors keep
\* their order, all rule entries come before all generative ones, which come
\* before all vector ones, and candidates with the same text in different
\* categories are both kept.
C27_ConcatenationWithoutLaterDuplicates ==
    merge_pc = "done" =>
      /\ Len(all_entities) = Cardinality(FirstOfKey)
      /\ \A n \in DOMAIN all_entities : all_entities[n] = MergeInput[NthFirstOfKey(n)]
      /\ \A i, j \in DOMAIN all_entities :
            i < j => SourceRank(all_entities[i]) <= SourceRank(all_entities[j])
      /\ \A k, m \in DOMAIN MergeInput :
            (MergeInput[k].text = MergeInput[m].text
               /\ MergeInput[k].type # MergeInput[m].type) =>
                  /\ Proposes(all_entities, MergeInput[k])
                  /\ Proposes(all_entities, MergeInput[m])

\* C27 witness: a generative candidate repeats the key of a rule candidate
\* and is gone, and a later candidate with the same text in another category
\* is kept after the rule one.
C27_Witness ==
    /\ merge_pc = "done"
    /\ Len(rule_entities) = 1 /\ Len(llm_entities) = 1 /\ Len(vector_entities) = 1
    /\ SameKey(rule_entities[1], llm_entities[1])
    /\ vector_entities[1].text = rule_entities[1].text
    /\ vector_entities[1].type # rule_entities[1].type
    /\ all_entities = <<rule_entities[1], vector_entities[1]>>
(***************************************************************************)
(* Claims about correct_text / _merge_corrections / _apply_corrections     *)
(* (checked under SpecCorr)                                                *)
(***************************************************************************)
\* the list handed to merging, and the entries it holds
CorrInput == rule_corrections \o llm_corrections
AppliedCount == Cardinality({i \in DOMAIN apply_log : apply_log[i].applied})
Completed == corr_pc = "done" /\ corr_result.message = "completed"

\* C3: no entry is applied partially. In each iteration of the loop the text
\* either stays exactly as it was, or the entry's original equals
\* current_text[start:end] and the new text is exactly
\* current_text[:start] + corrected + current_text[end:].
C3_NoPartialEdit ==
    [][(corr_pc = "apply" /\ corr_i' = corr_i + 1) =>
         LET c == Reversed(all_corrections)[corr_i]
             lo == PyIndex(c.start, Len(corrected_text))
             hi == PyIndex(c.end, Len(corrected_text))
             slice == IF lo >= hi THEN <<>> ELSE SubSeq(corrected_text, lo + 1, hi)
             head == SubSeq(corrected_text, 1, lo)
             tail == SubSeq(corrected_text, hi + 1, Len(corrected_text))
         IN \/ corrected_text' = corrected_text
            \/ /\ slice = c.original
               /\ corrected_text' = head \o c.corrected \o tail]_vars

\* C3 witness: an entry that matched the snapshot is skipped because an edit
\* processed before it changed its region, and the earlier edit is in place.
C3_Witness ==
    \E i, j \in DOMAIN apply_log :
       /\ i < j
       /\ apply_log[i].applied
       /\ apply_log[i].after # apply_log[i].before
       /\ ~apply_log[j].applied
       /\ apply_log[j].after = apply_log[j].before
       /\ LET c == apply_log[j].correction IN
          /\ 0 <= c.start /\ c.start < c.end /\ c.end <= Len(text)
          /\ SubSeq(text, c.start + 1, c.end) = c.original

\* an entry that is a span of the snapshot: 0 <= start < end <= len(text) and
\* text[start:end] == original, with all four keys present
ValidSpan(c) ==
    /\ c.missing = {}
    /\ 0 <= c.start /\ c.start < c.end /\ c.end <= Len(text)
    /\ SubSeq(text, c.start + 1, c.end) = c.original
Overlap(a, b) == a.start < b.end /\ b.start < a.end
NonOverlappingValid(list) ==
    /\ \A i \in DOMAIN list : ValidSpan(list[i])
    /\ \A i, j \in DOMAIN list : i # j => ~Overlap(list[i], list[j])

\* the text with every span of the set replaced at once, read from position
\* pos (counted from 0) on
RECURSIVE ReplaceAtOnce(_, _, _)
ReplaceAtOnce(s, entries, pos) ==
    IF pos >= Len(s) THEN <<>>
    ELSE IF \E c \in entries : c.start = pos
         THEN LET c == CHOOSE c \in entries : c.start = pos IN
              c.corrected \o ReplaceAtOnce(s, entries, c.end)
         ELSE <<s[pos + 1]>> \o ReplaceAtOnce(s, entries, pos + 1)

\* C4: when the entries are pairwise non-overlapping spans of the snapshot,
\* every entry is applied and the result is the simultaneous replacement of
\* each span by its corrected text.
C4_NonOverlappingAllApplied ==
    (Completed /\ NonOverlappingValid(CorrInput)) =>
       /\ Len(apply_log) = Len(CorrInput)
       /\ \A i \in DOMAIN apply_log : apply_log[i].applied
       /\ corr_result.corrected_text =
             ReplaceAtOnce(text, {CorrInput[i] : i \in DOMAIN CorrInput}, 0)

\* C4 witness: two non-overlapping spans, the one at the larger offset
\* replaced by a text of another length, both applied.
C4_Witness ==
    /\ Completed
    /\ NonOverlappingValid(CorrInput)
    /\ Len(CorrInput) = 2
    /\ \E i, j \in DOMAIN CorrInput :
          /\ CorrInput[i].start < CorrInput[j].start
          /\ Len(CorrInput[j].corrected) # Len(CorrInput[j].original)
    /\ AppliedCount = 2

\* the case of C5: no rule candidate, two generative entries {0, 2, "AB" ->
\* "CD"} and {0, 1, "A" -> "X"} in this order on a text beginning with "AB"
\* (X differs from A)
TieCase ==
    /\ Completed
    /\ rule_corrections = <<>>
    /\ Len(llm_corrections) = 2
    /\ Len(text) >= 2
    /\ LET e1 == llm_corrections[1]
           e2 == llm_corrections[2]
       IN /\ e1.missing = {} /\ e2.missing = {}
          /\ e1.start = 0 /\ e1.end = 2 /\ e1.original = SubSeq(text, 1, 2)
          /\ e2.start = 0 /\ e2.end = 1 /\ e2.original = SubSeq(text, 1, 1)
          /\ e2.corrected[1] # text[1]
          /\ e1.corrected # e1.original

\* C5 as stated: in that case the first entry (AB -> CD) is applied, the
\* second is skipped, and exactly one edit is applied.
C5_FirstListedApplied ==
    TieCase =>
       /\ corr_result.corrected_text =
             llm_corrections[1].corrected \o SubSeq(text, 3, Len(text))
       /\ AppliedCount = 1

\* position of an entry in the merged list
IndexIn(list, c) == CHOOSE i \in DOMAIN list : list[i] = c

\* C5 amended: entries with the same start are processed in the reverse of
\* their input-list order; in the case above the second entry (A -> X) is
\* applied, the first entry's check against the new text fails, and exactly
\* one edit is applied.
C5_LastListedApplied ==
    /\ \A i, j \in DOMAIN apply_log :
          (i < j /\ apply_log[i].correction.start = apply_log[j].correction.start)
             => IndexIn(all_corrections, apply_log[i].correction)
                   > IndexIn(all_corrections, apply_log[j].correction)
    /\ TieCase =>
          /\ corr_result.corrected_text =
                llm_corrections[2].corrected \o SubSeq(text, 2, Len(text))
          /\ AppliedCount = 1
          /\ apply_log[1].correction = llm_corrections[2] /\ apply_log[1].applied
          /\ apply_log[2].correction = llm_corrections[1] /\ ~apply_log[2].applied

\* C5 witness: the case itself.
C5_Witness == TieCase /\ Len(apply_log) = 2

Unusable ==
    \/ \E i \in DOMAIN CorrInput :
          CorrInput[i].missing \cap {"start", "end", "original"} # {}
    \/ \E i \in DOMAIN CorrInput :
          /\ "corrected" \in CorrInput[i].missing
          /\ \A j \in 1..(i - 1) :
                <<CorrInput[j].start, CorrInput[j].end, CorrInput[j].original>>
                   # <<CorrInput[i].start, CorrInput[i].end, CorrInput[i].original>>

\* C7: correct_text never raises: whatever the candidates (missing keys,
\* out-of-range, negative or stale offsets) no exception leaves the call and
\* every position before the return has its next step ready; an unusable
\* input yields the unmodified text with count 0, and entries that fail the
\* check leave the text unmodified.
C7_NeverRaises ==
    /\ corr_pc \in {"rules", "llm", "merge", "apply", "return", "except", "done"}
    /\ corr_pc = "apply" => corr_i \in 1..Len(all_corrections)
    /\ corr_pc = "done" =>
          /\ corr_result.message \in {"completed", "failed"}
          /\ corr_result.original_text = text
          /\ Unusable =>
                /\ corr_result.message = "failed"
                /\ corr_result.corrected_text = text
                /\ corr_result.correction_count = 0
          /\ ~Unusable => corr_result.message = "completed"
          /\ (\A i \in DOMAIN apply_log : ~apply_log[i].applied) =>
                corr_result.corrected_text = text

\* C7 witness: a reply whose candidates have all four keys is followed by a
\* candidate without one; the request ends with the unmodified text, count 0.
C7_Witness ==
    /\ corr_pc = "done"
    /\ corr_result.message = "failed"
    /\ Len(llm_corrections) = 2
    /\ llm_corrections[1].missing = {}
    /\ llm_corrections[2].missing # {}
    /\ corr_result.corrected_text = text
    /\ corr_result.correction_count = 0

\* the generative source failed, or returned candidates lacking a key
GenerativeDegraded ==
    \/ llm_reply.kind \in FailureKinds
    \/ /\ llm_reply.kind = "list"
       /\ \E i \in DOMAIN llm_reply.items : llm_reply.items[i].missing # {}

\* C8: a failure or malformed output of the generative source degrades only
\* that source: the result of correct_text still holds every candidate the
\* rule source contributed.
C8_RuleCandidatesSurvive ==
    (corr_pc = "done" /\ llm_options = "ollama" /\ GenerativeDegraded) =>
       \A r \in DOMAIN rule_corrections :
          \E k \in DOMAIN corr_result.corrections :
             /\ corr_result.corrections[k].method = "rule_based"
             /\ corr_result.corrections[k].start = rule_corrections[r].start
             /\ corr_result.corrections[k].end = rule_corrections[r].end
             /\ corr_result.corrections[k].original = rule_corrections[r].original


\* C24: applying an empty correction list returns the input text unchanged
\* with an applied count of 0.
C24_EmptyListLeavesText ==
    /\ \A s \in Texts : _apply_corrections(s, <<>>) = Ok(s)
    /\ (Completed /\ all_corrections = <<>>) =>
          /\ corr_result.corrected_text = text
          /\ corr_result.correction_count = 0
          /\ AppliedCount = 0

\* C24 witness: a request whose text holds no dictionary entry and whose
\* annotator answered with an empty list has completed on an empty merged list.
C24_Witness ==
    /\ Completed
    /\ all_corrections = <<>>
    /\ text # <<>>
    /\ llm_options = "ollama" /\ llm_reply = Reply("list", <<>>)
    /\ corr_result.corrected_text = text

\* C26: within correct_text the corrections are processed in non-increasing
\* order of start: of two entries processed one after the other, the first
\* has a start greater than or equal to the second's.
C26_ProcessedInNonIncreasingStart ==
    \A i \in DOMAIN apply_log :
        i < Len(apply_log) =>
            apply_log[i].correction.start >= apply_log[i + 1].correction.start

\* C26 witness: two entries that the sources listed with the smaller start
\* second have both been processed, the larger start first.
C26_Witness ==
    /\ Len(apply_log) >= 2
    /\ apply_log[1].correction.start > apply_log[2].correction.start
    /\ \E i, j \in DOMAIN CorrInput :
          /\ i < j
          /\ CorrInput[i] = apply_log[1].correction
          /\ CorrInput[j] = apply_log[2].correction

(***************************************************************************)
(* Claims about the generative wrappers called on their own (SpecGen)      *)
(***************************************************************************)
\* the cases the wrappers must turn into an empty candidate list
GenFailure ==
    \/ gen_reply.kind \in {"call_fails", "not_json", "not_object"}
    \/ gen_options = "other"

\* C9: _extract_entities_by_llm and _correct_by_llm never raise to their
\* caller, whatever the reply; and a failed upstream call, a reply that is
\* not JSON, a JSON value that is not an object, and an unsupported provider
\* name each give the empty candidate list.
C9_WrappersNeverRaise ==
    gen_pc = "done" =>
        /\ gen_out.exc = "none"
        /\ GenFailure => gen_out.value = <<>>

\* a finished call of each kind of failure has happened; this one is the
\* JSON value that is not an object, on the supported provider
C9_Witness ==
    /\ gen_pc = "done"
    /\ gen_service = "corr"
    /\ gen_options = "ollama"
    /\ gen_reply.kind = "not_object"
    /\ gen_out = Ok(<<>>)

(***************************************************************************)
(* Claims about StdService.standardize_text (SpecStd)                      *)
(***************************************************************************)
\* C10: when a standardize_text call is about to search, the instance holds
\* the embedding function, client and collection of the configuration the
\* call asked for, and the call has run __init__ exactly when what it asked
\* for differed from the configuration that was active when it began.
C10_ReinitExactlyOnChange ==
    std_pc = "search" =>
        /\ ActiveConfig = ConfigOf(std_req)
        /\ std_reinit <=> (std_at_call # ConfigOf(std_req))

\* a standardize_text call has returned
StdReturned == std_pc = "idle" /\ std_calls > 0

\* a result that reports nothing found
EmptyResult(result) ==
    /\ result.message # "raised"
    /\ result.standardized_terms = <<>>
    /\ result.confidence = 0

\* C18: a standardize_text call whose reinitialization, embedding or search
\* fails returns a normal result with no standardized terms and confidence
\* 0.0 instead of raising, and so does the result built from a search that
\* found zero hits.
C18_FailureGivesEmptyResult ==
    /\ StdReturned => EmptyResult(std_result)
    /\ EmptyResult(StandardizeHits(<<>>))

\* returned: the second call on the instance, whose reinitialization failed
\* before any search
C18_Witness ==
    /\ StdReturned
    /\ std_calls = 2
    /\ std_reinit
    /\ search_used = NoSearch
    /\ EmptyResult(std_result)

\* the three handles have the values that one configuration gives them: the
\* configuration for which one of them was set
HandlesFromOneConfiguration ==
    ActiveConfig \in {installed_from.embedding_func, installed_from.client,
                      installed_from.collection_name}

\* C23: with several standardize_text requests for different configurations
\* on the shared instance, no search runs with an embedding function set for
\* one configuration and a client or collection name set for another, and
\* between a request's configuration test and its search no other request
\* replaces a handle.
C23_SearchHandlesFromOneConfiguration ==
    std_pc = "search" => HandlesFromOneConfiguration

\* C29: when the reinitialization inside standardize_text fails, the
\* embedding function, the client and the collection name are all still those
\* of the configuration that was active when the request arrived.
C29_FailedReinitKeepsHandles ==
    (std_pc = "except" /\ std_reinit /\ ~search_used.searched) =>
        ActiveConfig = std_at_call

(***************************************************************************)
(* Claims about NERService.extract_entities (SpecNer)                      *)
(***************************************************************************)
\* a span lies in the text and carries the characters it points at
SpanInText(entity, s) ==
    /\ HasKey(entity, "start") /\ HasKey(entity, "end")
    /\ entity.end > entity.start
    /\ entity.end <= Len(s)
    /\ entity.text = PySlice(s, entity.start, entity.end)

\* C11: every entity that extract_entities returns, whichever source made
\* it, has end > start, end <= len(text) and text == text[start:end] for
\* the text of the request.
C11_SpansWithinText ==
    ner_pc = "done" =>
        \A i \in DOMAIN ner_result.entities :
            SpanInText(ner_result.entities[i], ner_text)

\* the (literal, category) entries of the dictionary
DictionaryEntries ==
    UNION {{<<entity_patterns[k].patterns[j], entity_patterns[k].type>> :
              j \in DOMAIN entity_patterns[k].patterns} : k \in DOMAIN entity_patterns}

\* the offsets at which a literal occurs in a text
Occurrences(s, literal) == {i \in 0..Len(s) : StartsAt(s, literal, i)}

\* the rule spans emitted for one entry
SpansOf(spans, entry) ==
    {i \in DOMAIN spans : spans[i].text = entry[1] /\ spans[i].type = entry[2]}

\* C12: once the rule matcher has run, every (literal, category) entry of
\* the dictionary has exactly one span when the literal occurs in the text
\* and none when it does not; the span starts at the first occurrence of
\* the literal, ends len(literal) later and carries confidence 0.7; every
\* rule span belongs to an entry; and an empty text gives no span.
C12_LiteralFirstOccurrenceOnly ==
    ner_pc \notin {"rules", "idle"} =>
        /\ \A entry \in DictionaryEntries :
              Cardinality(SpansOf(ner_rule, entry)) =
                  IF Occurrences(ner_text, entry[1]) # {} THEN 1 ELSE 0
        /\ \A i \in DOMAIN ner_rule :
              /\ <<ner_rule[i].text, ner_rule[i].type>> \in DictionaryEntries
              /\ ner_rule[i].start \in Occurrences(ner_text, ner_rule[i].text)
              /\ \A o \in Occurrences(ner_text, ner_rule[i].text) : ner_rule[i].start <= o
              /\ ner_rule[i].end = ner_rule[i].start + Len(ner_rule[i].text)
              /\ ner_rule[i].confidence = 70
              /\ ner_rule[i].method = "rule_based"
        /\ ner_text = <<>> => ner_rule = <<>>

\* the matcher has run on a text in which one literal occurs twice, another
\* occurs only at a later offset and a third does not occur
C12_Witness ==
    /\ ner_pc = "llm"
    /\ \E i \in DOMAIN ner_rule : Cardinality(Occurrences(ner_text, ner_rule[i].text)) > 1
    /\ \E i \in DOMAIN ner_rule : ner_rule[i].start > 0
    /\ \E entry \in DictionaryEntries : Occurrences(ner_text, entry[1]) = {}

\* the states in which every merged entity carries its final confidence
NerScoredStates == {"sort", "return"}

\* C14: every final confidence the scorer gives a merged entity lies
\* between 0 and 1, whichever source produced the entity, however long its
\* text is and however often it occurs in the request text; the same holds
\* for the entities of the returned result.
C14_FinalConfidenceInUnitInterval ==
    /\ ner_pc \in NerScoredStates =>
          \A i \in DOMAIN ner_all : ner_all[i].confidence \in 0..One
    /\ ner_pc = "done" =>
          \A i \in DOMAIN ner_result.entities :
              ner_result.entities[i].confidence \in 0..One

\* scored: a rule entity, a generative entity of length 3 (the largest
\* product) and a generative entity of length 1 occurring twice (the smallest)
C14_Witness ==
    /\ ner_pc = "sort"
    /\ \E i \in DOMAIN ner_all : ner_all[i].method = "rule_based"
    /\ \E i \in DOMAIN ner_all :
          ner_all[i].method = "llm_based" /\ Len(ner_all[i].text) >= 3
    /\ \E i \in DOMAIN ner_all :
          /\ ner_all[i].method = "llm_based" /\ Len(ner_all[i].text) = 1
          /\ Count(ner_text, ner_all[i].text) > 1

\* the factors as the specification lists them: the method weight in
\* hundredths, the two adjustments in tenths
StatedMethodWeight(method) ==
    CASE method = "rule_based" -> 90 [] method = "llm_based" -> 100
      [] method = "vector_based" -> 95
StatedLengthAdjustment(n) == CASE n >= 3 -> 11 [] n <= 1 -> 8 [] OTHER -> 10
StatedFrequencyAdjustment(n) == CASE n > 1 -> 9 [] n = 1 -> 10

\* the merged entities before scoring, in the order of the scored list
NerMerged == _merge_entities(ner_rule, ner_llm, ner_vector)

\* C15: the final confidence of a merged entity whose text occurs in the
\* request text is base x method weight x length adjustment x frequency
\* adjustment, cut off at 1: the weight is 0.9 for rule, 1.0 for generative
\* and 0.95 for vector entities; the length adjustment is 1.1 for a text of
\* 3 or more characters, 0.8 for at most 1, else 1.0; the frequency
\* adjustment is 0.9 when the text occurs more than once in the request text
\* and 1.0 when it occurs once.
C15_ScoreIsProductOfFactors ==
    ner_pc = "sort" =>
        /\ Len(ner_all) = Len(NerMerged)
        /\ \A i \in DOMAIN ner_all :
              LET entity == NerMerged[i]
                  n == Cardinality(Occurrences(ner_text, entity.text))
              IN n >= 1 =>
                   ner_all[i].confidence =
                       Min(One, entity.confidence
                                  * StatedMethodWeight(entity.method)
                                  * StatedLengthAdjustment(Len(entity.text))
                                  * StatedFrequencyAdjustment(n))

\* scored: a rule entity of length 3, a generative entity of length 1
\* occurring twice and a generative entity of length 3 occurring once
C15_Witness ==
    /\ ner_pc = "sort"
    /\ \E i \in DOMAIN ner_all :
          ner_all[i].method = "rule_based" /\ Len(ner_all[i].text) = 3
    /\ \E i, j \in DOMAIN ner_all :
          /\ ner_all[i].method = "llm_based" /\ ner_all[j].method = "llm_based"
          /\ Len(ner_all[i].text) = 1 /\ Len(ner_all[j].text) = 3
          /\ Cardinality(Occurrences(ner_text, ner_all[i].text)) = 2
          /\ Cardinality(Occurrences(ner_text, ner_all[j].text)) = 1

\* the scored entities in merge order, as the sort receives them
NerBeforeSort == Scored(NerMerged, ner_text)

\* the position of an entity in a list of distinct entities
PositionIn(entities, entity) == CHOOSE i \in DOMAIN entities : entities[i] = entity

\* descending confidence, and merge order among equal confidences
OrderedByConfidence(entities, before) ==
    /\ Len(entities) = Len(before)
    /\ {entities[i] : i \in DOMAIN entities} = {before[i] : i \in DOMAIN before}
    /\ \A i, j \in DOMAIN entities : i < j =>
          /\ entities[i].confidence >= entities[j].confidence
          /\ entities[i].confidence = entities[j].confidence =>
                PositionIn(before, entities[i]) < PositionIn(before, entities[j])

\* C16: the entities extract_entities returns are the scored merged
\* entities in descending order of final confidence, and entities of equal
\* final confidence keep the order the merge gave them (rule before
\* generative before vector, first seen first).
C16_DescendingStableOrder ==
    /\ ner_pc = "return" => OrderedByConfidence(ner_all, NerBeforeSort)
    /\ (ner_pc = "done" /\ ner_result.message = "completed") =>
          OrderedByConfidence(ner_result.entities, NerBeforeSort)

\* returned: two entities of equal final confidence behind a generative
\* entity that the merge had placed after them
C16_Witness ==
    /\ ner_pc = "done" /\ ner_result.message = "completed"
    /\ Len(ner_result.entities) >= 3
    /\ ner_result.entities # NerBeforeSort
    /\ \E i, j \in DOMAIN ner_result.entities :
          /\ i < j
          /\ ner_result.entities[i].confidence = ner_result.entities[j].confidence
          /\ ner_result.entities[i].type # ner_result.entities[j].type

(***************************************************************************)
(* Claims about the pattern entries of the rule matcher (SpecRules)        *)
(***************************************************************************)
\* the candidates a call returned for pattern entries, in list order
PatternCandidates ==
    SelectSeq(rules_out, LAMBDA c : c.type = "pattern_match")

\* the starts of the non-overlapping matches of a pattern, scanning left to
\* right: a position is one exactly when the pattern matches there and no
\* earlier one reaches over it
IsMatchSet(S, s, pattern) ==
    \A i \in 0..Len(s) :
        i \in S <=> /\ MatchesAt(s, pattern, i)
                    /\ \A j \in S : j < i => j + Len(pattern) <= i

\* C13: for a compiled-pattern entry the rule matcher returns one candidate
\* for every non-overlapping match of the pattern in the text, not only the
\* first: the candidates' starts are exactly those matches, in text order,
\* each with end = start + length of the match, the matched characters as
\* 'original' and confidence 0.7.
C13_EveryPatternMatch ==
    rules_pc = "done" =>
        LET cands == PatternCandidates
            pattern == financial_patterns[1]
        IN /\ IsMatchSet({cands[i].start : i \in DOMAIN cands}, rules_text, pattern)
           /\ \A i, j \in DOMAIN cands : i < j => cands[i].start < cands[j].start
           /\ \A i \in DOMAIN cands :
                 /\ cands[i].end = cands[i].start + Len(pattern)
                 /\ cands[i].original = PySlice(rules_text, cands[i].start, cands[i].end)
                 /\ cands[i].confidence = 70

\* a call on a text with two matches has returned both
C13_Witness ==
    /\ rules_pc = "done"
    /\ Len(PatternCandidates) = 2
    /\ PatternCandidates[1].original # PatternCandidates[2].original

(***************************************************************************)
(* Claims about the standardization confidence (SpecScore)                 *)
(***************************************************************************)
\* C17: the confidence of a hit is 1 - min(distance, 1): 1.0 at distance 0,
\* 0.0 at distance 1 and beyond, and strictly decreasing in the distance
\* below 1; the overall confidence of the result is the confidence of the
\* first hit, whose name is reported as the best match.
C17_DistanceToConfidence ==
    (score_pc = "done" /\ score_hits # <<>>) =>
        LET terms == score_out.standardized_terms
        IN /\ Len(terms) = Len(score_hits)
           /\ \A i \in DOMAIN terms :
                 /\ score_hits[i].distance = 0 => terms[i].confidence = 100
                 /\ score_hits[i].distance >= 100 => terms[i].confidence = 0
                 /\ score_hits[i].distance < 100 =>
                       terms[i].confidence = 100 - score_hits[i].distance
           /\ \A i, j \in DOMAIN terms :
                 (score_hits[i].distance < score_hits[j].distance
                    /\ score_hits[j].distance < 100) =>
                       terms[i].confidence > terms[j].confidence
           /\ score_out.confidence = terms[1].confidence
           /\ score_out.best_match = score_hits[1].term_name

\* a result built from three hits whose first is neither the nearest nor
\* the farthest, with one hit beyond distance 1
C17_Witness ==
    /\ score_pc = "done"
    /\ Len(score_hits) = 3
    /\ score_hits[1].distance = 30
    /\ score_hits[2].distance = 200
    /\ score_hits[3].distance = 0
    /\ score_out.confidence = 70

(***************************************************************************)
(* Claims about the embedding factory (SpecEmb)                            *)
(***************************************************************************)
\* C19: once StdService.__init__ has created the embedding function for a
\* supported provider whose library loads, the function is that provider's
\* own: not the default zero-vector function and not another provider's.
C19_ProviderFunctionWhenAvailable ==
    (emb_pc \in {"query", "done"} /\ emb_library = "loads") =>
        emb_func.made_by = emb_provider

\* C20: whenever a call of the embedding function falls back to a zero
\* vector (the function is the default one, or the provider call failed),
\* the vector's length is the dimension get_embedding_dimension registers
\* for the configured provider and model.
C20_FallbackHasRegisteredDimension ==
    (emb_pc = "done" /\ emb_vec.zero) =>
        emb_vec.length = get_embedding_dimension(provider_mapping(emb_provider), emb_model)

(***************************************************************************)
(* Claims about get_embedding_dimension (checked under SpecDim)            *)
(***************************************************************************)
\* the registered (provider, model, dimension) triples of dimension_map
RegisteredDimensions ==
    {<<HUGGINGFACE, "BAAI/bge-m3", 1024>>,
     <<HUGGINGFACE, "BAAI/bge-large-zh", 1024>>,
     <<HUGGINGFACE, "BAAI/bge-base-zh", 768>>,
     <<HUGGINGFACE, "sentence-transformers/all-MiniLM-L6-v2", 384>>,
     <<HUGGINGFACE, "sentence-transformers/all-mpnet-base-v2", 768>>,
     <<OPENAI, "text-embedding-ada-002", 1536>>,
     <<OPENAI, "text-embedding-3-small", 1536>>,
     <<OPENAI, "text-embedding-3-large", 3072>>,
     <<BEDROCK, "amazon.titan-embed-text-v1", 1536>>,
     <<BEDROCK, "cohere.embed-english-v3", 1024>>,
     <<BEDROCK, "cohere.embed-multilingual-v3", 1024>>}
RegisteredPairs == {<<r[1], r[2]>> : r \in RegisteredDimensions}
KnownProviders == {r[1] : r \in RegisteredDimensions}

\* C21: get_embedding_dimension returns the table entry of a registered
\* (provider, model) pair and 1024 for every other pair, an unregistered
\* model of a known provider and an unknown provider included.
C21_TableEntryOrDefault ==
    dim_pc = "done" =>
        /\ \A r \in RegisteredDimensions :
              (dim_provider = r[1] /\ dim_model = r[2]) => dim_out = r[3]
        /\ <<dim_provider, dim_model>> \notin RegisteredPairs => dim_out = 1024

\* C21 witness: the call has returned the default for a model name that is
\* registered under one provider and was asked for under a provider that is
\* not a key of the table.
C21_Witness ==
    /\ dim_pc = "done"
    /\ dim_provider \notin KnownProviders
    /\ dim_model = "text-embedding-3-large"
    /\ dim_out = 1024

(***************************************************************************)
(* Claims about requests whose annotator stays silent (checked under       *)
(* SpecAwait)                                                              *)
(***************************************************************************)
\* C22: every extract_entities and correct_text request eventually returns,
\* also when the generative annotator never responds, because the call to it
\* is bounded by a timeout after which the request continues with an empty
\* candidate list.
C22_EveryRequestReturns == <>(ner_pc = "done" \/ corr_pc = "done")

(***************************************************************************)
(* Claims about _merge_corrections and _apply_corrections across requests  *)
(* (checked under SpecApplier)                                             *)
(***************************************************************************)
SameRequest(a, b) == a.text = b.text /\ a.llm = b.llm
AppliedIn(out) == Cardinality({i \in DOMAIN out.log : out.log[i].applied})
SameCorrectionKey(a, b) ==
    a.start = b.start /\ a.end = b.end /\ a.original = b.original

\* C25: two runs on identical (text, corrections) input give identical output
\* text and identical applied count, whatever requests the same service
\* instance handled before.
C25_SameInputSameOutput ==
    \A i, j \in DOMAIN app_outs :
        SameRequest(app_outs[i], app_outs[j]) =>
            /\ app_outs[i].result = app_outs[j].result
            /\ AppliedIn(app_outs[i]) = AppliedIn(app_outs[j])
            /\ app_outs[i].merged = app_outs[j].merged

\* C25 witness: after an earlier, different request that held the same key,
\* one request was served twice, and each time an entry was applied and the
\* text changed.
C25_Witness ==
    /\ Len(app_outs) = 3
    /\ ~SameRequest(app_outs[1], app_outs[2])
    /\ SameRequest(app_outs[2], app_outs[3])
    /\ \E i \in DOMAIN app_outs[1].merged : \E j \in DOMAIN app_outs[2].merged :
          SameCorrectionKey(app_outs[1].merged[i], app_outs[2].merged[j])
    /\ AppliedIn(app_outs[2]) >= 1 /\ AppliedIn(app_outs[3]) >= 1
    /\ app_outs[3].result # app_outs[3].text

\* C28: _merge_corrections keeps at most one correction per (start, end,
\* original) key, and for a key that both the rule source and the generative
\* source propose it keeps a rule-based entry and drops the generative one,
\* also when the rule-based entry replaces the text by itself and the
\* generative entry has the higher confidence.
C28_OnePerKeyRuleWins ==
    \A n \in DOMAIN app_outs :
        LET o == app_outs[n] IN
        /\ \A i, j \in DOMAIN o.merged :
              i # j => ~SameCorrectionKey(o.merged[i], o.merged[j])
        /\ \A r \in DOMAIN o.rule : \A l \in DOMAIN o.llm :
              SameCorrectionKey(o.rule[r], o.llm[l]) =>
                 /\ \A i \in DOMAIN o.merged : o.merged[i] # o.llm[l]
                 /\ \E i \in DOMAIN o.merged :
                       /\ SameCorrectionKey(o.merged[i], o.rule[r])
                       /\ o.merged[i].method = "rule_based"

\* C28 witness: a pattern match that replaces the text by itself, with
\* confidence 0.7, met a generative entry for the same key with confidence
\* 0.95 and another replacement; the pattern match is in the merged list and
\* the generative entry is not.
C28_Witness ==
    \E n \in DOMAIN app_outs :
        LET o == app_outs[n] IN
        \E r \in DOMAIN o.rule : \E l \in DOMAIN o.llm :
           /\ SameCorrectionKey(o.rule[r], o.llm[l])
           /\ o.rule[r].corrected = o.rule[r].original
           /\ o.llm[l].corrected # o.llm[l].original
           /\ o.llm[l].confidence > o.rule[r].confidence
           /\ \E i \in DOMAIN o.merged : o.merged[i] = o.rule[r]
           /\ \A i \in DOMAIN o.merged : o.merged[i] # o.llm[l]

\* the sum of len(corrected) - len(original) over the applied entries
RECURSIVE LengthChange(_)
LengthChange(log) ==
    IF log = <<>> THEN 0
    ELSE (IF Head(log).applied
          THEN Len(Head(log).correction.corrected) - Len(Head(log).correction.original)
          ELSE 0) + LengthChange(Tail(log))

\* C30: after _apply_corrections has processed a correction list, the length
\* of the returned text is len(text) plus the sum of len(corrected) -
\* len(original) over exactly the applied entries; skipped entries add nothing.
C30_LengthAccounting ==
    \A n \in DOMAIN app_outs :
        Len(app_outs[n].result) =
            Len(app_outs[n].text) + LengthChange(app_outs[n].log)
====
